---- MODULE Spec2Model ----
(***************************************************************************)
(* A model of the read path of the git object database in this repository: *)
(* the identifier algebra (object_id.rs), the pack index reader            *)
(* (packed/index.rs), the delta patcher (packed/delta.rs), the loose       *)
(* object reader (objects.rs), the lookup State (state.rs) and the         *)
(* database facade (object_database/mod.rs).                               *)
(*                                                                         *)
(* Values keep the program's widths: an Oid is a u128, modelled as its 16  *)
(* big-endian bytes (TLC integers are 32 bit); an OidFull is 20 bytes.     *)
(* Each component has its own variables and its own specification; the     *)
(* variables of the other components stay at their initial value.          *)
(***************************************************************************)
EXTENDS Integers, Sequences, FiniteSets, TLC

VARIABLES
    \* ---- identifier algebra (object_id.rs)
    hash,        \* the &str given to PartialOid::from_hash, one number per char
    build,       \* "debug" (overflow checks on) or "release" (wrapping shifts)
    partial,     \* the io::Result<PartialOid> of from_hash, None before the call
    cand,        \* the Oid given to PartialOid::matches
    matched,     \* the outcome of matches, None before the call
    \* ---- pack index reader (packed/index.rs, state.rs IDXState)
    idx,         \* the opened index file: version and the tables it holds
    idxArg,      \* the argument of the operation: an Oid or a PartialOid
    idxOp,       \* the operation that ran last, "none" before any
    idxRet,      \* what the operation returned
    idxWalk,     \* what the walker did: indexes read, Oids handed on, panic
    looseMap,    \* the keys of a PartiallyResolvedLooseMap
    \* ---- object database on disk and its facade (mod.rs, state.rs, fs_helpers.rs)
    fs,          \* the objects directory: loose folders, pack directory, index files
    dbOp,        \* the facade or State operation that ran last, "none" before any
    dbArg,       \* its argument
    dbRet,       \* its io::Result (or a panic)
    dbHits,      \* what it handed to the caller's callback
    \* ---- delta patcher (packed/delta.rs)
    base_data,   \* the payload of the base object
    delta_data,  \* the opcode stream, after the two size varints
    output_len,  \* the declared result size
    deltaRet,    \* what apply_delta returned, None before the call
    \* ---- loose object reader (objects.rs)
    objFile,     \* the loose file: the type, the size its header declares, the payload
    should_read_blobs,  \* whether the caller wants the body of a blob
    objRet,      \* what read_raw_object returned, None before the call
    \* ---- pack files (packed/pack.rs) and their resolution (mod.rs)
    repo,        \* the object directory: pack indexes, pack files, loose objects
    scene,       \* what the directory was written from: the objects' payloads
    packArg,     \* the location handed to get_packed_object
    packRet,     \* what get_packed_object returned, None before the call
    \* ---- SlightlyBetterState (state.rs) over an objects directory
    disk,        \* the objects directory the State was created on
    loose_map,   \* per folder byte, the BTreeMap<Oid, OidFull> of its objects
    known_packs, \* the TinyVec of pack ids found in the pack directory
    visited,     \* the calls made so far: the folder bytes, the pack directory
    stCall,      \* the last call: what it read, handed on and returned
    \* ---- entry headers of a pack file (packed/pack.rs)
    hdrFile,     \* the bytes of the mapped pack file
    hdrIndex,    \* the index given to get_object_type_and_len_at_index
    hdrRet,      \* what it returned, None before the call
    \* ---- creation of a State or a LightObjectDB (state.rs, mod.rs)
    path,        \* the base directory string given to new
    ctor,        \* which constructor is called
    sep,         \* the platform's main separator byte
    created,     \* the io::Result of new, None before the call
    static_path, \* what get_static_path_str returned, None before the call
    \* ---- parsing of hex strings into identifiers (object_id.rs)
    hex,         \* the string to parse, as its UTF-8 bytes
    parseOp,     \* the parser that ran, "none" before any
    parseRet,    \* what it returned
    \* ---- commit parsers (loose/parsed/commit_object_parsing.rs)
    raw,         \* the payload of a commit object
    commitOp,    \* the parser variant that ran, "none" before any
    commitRet,   \* its io::Result (or a panic)
    ppCall,      \* the last parse_parent call: cursor before, result, cursor after
    \* ---- tree parser (loose/parsed/tree_object_parsing.rs)
    treeRaw,     \* the payload of a tree object
    treeRet,     \* what TreeObject::parse returned, None before the call
    \* ---- OidMap (oidmap_u128/mod.rs)
    tables_root, \* root: the N sorted tables of an OidMap
    inserts,     \* the (key, value) pairs inserted so far
    mapRet,      \* the last get or len and what it returned
    \* ---- a SearchedPack of examples/log-oneline.rs
    spFile,      \* idx_file.file, the index of the pack
    continue_from, \* idx_file.continue_from
    fully_searched, \* idx_file.fully_searched
    known_oids,  \* idx_file.known_oids, as the pairs (Oid, fanout index) inserted
    spCall,      \* the last find_oid_location call and what it returned
    lookups      \* how many find_oid_location calls were made

oidVars == <<hash, build, partial, cand, matched>>
idxVars == <<idx, idxArg, idxOp, idxRet, idxWalk, looseMap>>
dbVars == <<fs, dbOp, dbArg, dbRet, dbHits>>
deltaVars == <<base_data, delta_data, output_len, deltaRet>>
objVars == <<objFile, should_read_blobs, objRet>>
packVars == <<repo, scene, packArg, packRet>>
stVars == <<disk, loose_map, known_packs, visited, stCall>>
hdrVars == <<hdrFile, hdrIndex, hdrRet>>
pathVars == <<path, ctor, sep, created, static_path>>
parseVars == <<hex, parseOp, parseRet>>
commitVars == <<raw, commitOp, commitRet, ppCall>>
treeVars == <<treeRaw, treeRet>>
mapVars == <<tables_root, inserts, mapRet>>
spVars == <<spFile, continue_from, fully_searched, known_oids, spCall, lookups>>
vars == <<oidVars, idxVars, dbVars, deltaVars, objVars, packVars, stVars, hdrVars, pathVars,
          parseVars, commitVars, treeVars, mapVars, spVars>>
\* what an action of one component leaves alone
exceptOid == <<idxVars, dbVars, deltaVars, objVars, packVars, stVars, hdrVars, pathVars,
               parseVars, commitVars, treeVars, mapVars, spVars>>
exceptIdx == <<oidVars, dbVars, deltaVars, objVars, packVars, stVars, hdrVars, pathVars,
               parseVars, commitVars, treeVars, mapVars, spVars>>
exceptDb == <<oidVars, idxVars, deltaVars, objVars, packVars, stVars, hdrVars, pathVars,
              parseVars, commitVars, treeVars, mapVars, spVars>>
exceptDelta == <<oidVars, idxVars, dbVars, objVars, packVars, stVars, hdrVars, pathVars,
                 parseVars, commitVars, treeVars, mapVars, spVars>>
exceptObj == <<oidVars, idxVars, dbVars, deltaVars, packVars, stVars, hdrVars, pathVars,
               parseVars, commitVars, treeVars, mapVars, spVars>>
exceptPack == <<oidVars, idxVars, dbVars, deltaVars, objVars, stVars, hdrVars, pathVars,
                parseVars, commitVars, treeVars, mapVars, spVars>>
exceptSt == <<oidVars, idxVars, dbVars, deltaVars, objVars, packVars, hdrVars, pathVars,
              parseVars, commitVars, treeVars, mapVars, spVars>>
exceptHdr == <<oidVars, idxVars, dbVars, deltaVars, objVars, packVars, stVars, pathVars,
               parseVars, commitVars, treeVars, mapVars, spVars>>
exceptPath == <<oidVars, idxVars, dbVars, deltaVars, objVars, packVars, stVars, hdrVars,
                parseVars, commitVars, treeVars, mapVars, spVars>>
exceptParse == <<oidVars, idxVars, dbVars, deltaVars, objVars, packVars, stVars, hdrVars,
                 pathVars, commitVars, treeVars, mapVars, spVars>>
exceptCommit == <<oidVars, idxVars, dbVars, deltaVars, objVars, packVars, stVars, hdrVars,
                  pathVars, parseVars, treeVars, mapVars, spVars>>
exceptTree == <<oidVars, idxVars, dbVars, deltaVars, objVars, packVars, stVars, hdrVars,
                pathVars, parseVars, commitVars, mapVars, spVars>>
exceptMap == <<oidVars, idxVars, dbVars, deltaVars, objVars, packVars, stVars, hdrVars,
               pathVars, parseVars, commitVars, treeVars, spVars>>
exceptSp == <<oidVars, idxVars, dbVars, deltaVars, objVars, packVars, stVars, hdrVars, pathVars,
              parseVars, commitVars, treeVars, mapVars>>

---------------------------------------------------------------------------
(* Option / Result values                                                  *)
None == [tag |-> "None"]
Some(x) == [tag |-> "Some", val |-> x]
Ok(x) == [tag |-> "Ok", val |-> x]
Err == [tag |-> "Err"]
\* a Rust panic: index out of bounds, slice range out of range, overflow check
Panic == [tag |-> "Panic"]

Min(a, b) == IF a < b THEN a ELSE b

\* the elements of a sequence
SeqRange(q) == {q[k] : k \in 1..Len(q)}

RECURSIVE Pow2(_)
Pow2(n) == IF n = 0 THEN 1 ELSE 2 * Pow2(n - 1)

\* all sequences over S of length at most n
RECURSIVE SeqsUpTo(_, _)
SeqsUpTo(S, n) ==
    IF n = 0 THEN {<<>>}
    ELSE LET shorter == SeqsUpTo(S, n - 1)
         IN shorter \cup {Append(s, x) : s \in {t \in shorter : Len(t) = n - 1}, x \in S}

---------------------------------------------------------------------------
(* Identifier algebra: object_id.rs                                        *)

\* an Oid is 128 bits
OID_BITS == 128
\* bytes of an Oid (OidTruncated) and of an OidFull
OID_BYTES == 16
SHA1_SIZE == 20
\* hex characters of an OidStrTruncated
OID_STR_LEN == 32

\* characters of a hash string: 0..15 are the hex digits '0'..'f',
\* PlusChar is '+', which from_str_radix accepts as a leading sign,
\* NonHexChar stands for any character from_str_radix rejects
PlusChar == 16
NonHexChar == 17

ZeroOid == [i \in 1..OID_BYTES |-> 0]

\* lexicographic order of two byte sequences of one length
RECURSIVE BytesLessFrom(_, _, _)
BytesLessFrom(a, b, i) ==
    IF i > Len(a) THEN FALSE
    ELSE IF a[i] # b[i] THEN a[i] < b[i]
    ELSE BytesLessFrom(a, b, i + 1)
BytesLess(a, b) == BytesLessFrom(a, b, 1)
\* u128 comparison of two Oids: their big-endian bytes compare lexicographically
OidLess(a, b) == BytesLess(a, b)

\* a & b on two bytes, and on two Oids
RECURSIVE ByteAnd(_, _, _)
ByteAnd(a, b, bits) ==
    IF bits = 0 THEN 0
    ELSE (a % 2) * (b % 2) + 2 * ByteAnd(a \div 2, b \div 2, bits - 1)
OidAnd(a, b) == [i \in 1..OID_BYTES |-> ByteAnd(a[i], b[i], 8)]

\* oid >> n for 0 <= n < 128
Shr(oid, n) ==
    LET q == n \div 8
        r == n % 8
    IN [i \in 1..OID_BYTES |->
          IF i - q < 1 THEN 0
          ELSE (oid[i - q] \div Pow2(r))
               + (IF i - q - 1 >= 1 THEN (oid[i - q - 1] % Pow2(r)) * Pow2(8 - r) ELSE 0)]

\* `oid >> n` with a shift amount that can reach the width: the debug build
\* panics ("attempt to shift right with overflow"), the release build masks
\* the amount to the width
ShrChecked(oid, n, b) ==
    IF n < OID_BITS THEN Ok(Shr(oid, n))
    ELSE IF b = "debug" THEN Panic
    ELSE Ok(Shr(oid, n % OID_BITS))

\* from_str_radix(s, 16) on an even, non-zero number of characters that fill
\* the integer's width: the value as big-endian bytes.  A leading '+' is a
\* sign; the digits after it are one fewer, so the leading digit is 0.
from_str_radix(s) ==
    LET signed == s[1] = PlusChar
        digits == IF signed THEN <<0>> \o SubSeq(s, 2, Len(s)) ELSE s
    IN IF (\E i \in 1..Len(s) : digits[i] > 15) \/ (signed /\ Len(s) = 1)
       THEN Err
       ELSE Ok([i \in 1..(Len(s) \div 2) |-> 16 * digits[2 * i - 1] + digits[2 * i]])

\* Oid::from_str_radix(s, 16) on the 32 characters of an OidStrTruncated
oid_str_truncated_to_oid(s) == from_str_radix(s)

get_first_byte_of_oid(oid) == oid[1]

full_oid_to_u128_oid(full) == SubSeq(full, 1, OID_BYTES)

\* PartialOid::from_hash
from_hash(h, b) ==
    LET hash_len == Len(h)
        oid_str == IF hash_len < OID_STR_LEN
                   THEN [i \in 1..OID_STR_LEN |-> IF i <= hash_len THEN h[i] ELSE 0]
                   ELSE SubSeq(h, 1, OID_STR_LEN)
        bits_set == IF hash_len < OID_STR_LEN THEN hash_len * 4 ELSE OID_STR_LEN * 4
        parsed == oid_str_truncated_to_oid(oid_str)
        shift_by == OID_BITS - bits_set
    IN IF parsed.tag = "Err" THEN Err
       ELSE LET shifted == ShrChecked(parsed.val, shift_by, b)
            IN IF shifted.tag = "Panic" THEN Panic
               ELSE Ok([oid |-> parsed.val, shift_by |-> shift_by,
                        oid_shifted |-> shifted.val])

\* PartialOid::matches: Ok(bool), or Panic on the shift overflow check
MatchesShift(p, oid, b) == ShrChecked(oid, p.shift_by, b)
PartialMatches(p, oid, b) ==
    LET shifted == MatchesShift(p, oid, b)
    IN IF shifted.tag = "Panic" THEN Panic ELSE Ok(p.oid_shifted = shifted.val)

---------------------------------------------------------------------------
(* Inputs of the model                                                     *)

\* longest hash string shorter than a full id that the model tries
MaxHashLen == 3
\* characters the hash strings are drawn from
HashChars == {0, 7, 15, PlusChar, NonHexChar}
\* first and second bytes of the digests of the model's objects
FirstBytes == {0, 127, 255}
SecondBytes == {15, 240}

\* the 20-byte digest with the given leading bytes; the rest repeats `fill`
Digest(b1, b2, fill) ==
    [i \in 1..SHA1_SIZE |-> IF i = 1 THEN b1 ELSE IF i = 2 THEN b2 ELSE fill]
DigestUniverse == {Digest(b1, b2, 0) : b1 \in FirstBytes, b2 \in SecondBytes}
OidUniverse == {full_oid_to_u128_oid(d) : d \in DigestUniverse}

\* the hex string of a byte sequence
HexOf(bytes) ==
    [i \in 1..(2 * Len(bytes)) |->
        IF i % 2 = 1 THEN bytes[(i + 1) \div 2] \div 16 ELSE bytes[i \div 2] % 16]

HashInputs ==
    SeqsUpTo(HashChars, MaxHashLen)
        \cup {HexOf(d) : d \in DigestUniverse}
        \cup {HexOf(o) : o \in OidUniverse}

\* most objects a pack index (or a loose folder) of the model holds
MaxObjects == 3
\* the byte a well-formed index's crc32 table and trailing checksums repeat
FillBytes == {0, 255}
\* pack offset of the j-th object of a pack: the first follows the 12-byte
\* pack header
PackOffsetOf(j) == 12 + 100 * (j - 1)

RECURSIVE SortedSeq(_)
SortedSeq(S) ==
    IF S = {} THEN <<>>
    ELSE LET least == CHOOSE x \in S : \A y \in S \ {x} : BytesLess(x, y)
         IN <<least>> \o SortedSeq(S \ {least})

ObjectSets == {S \in SUBSET DigestUniverse : Cardinality(S) <= MaxObjects}

\* the index git writes for the objects S: digests ascending, small offsets
IndexOf(S, version, fill) ==
    [version |-> version,
     digests |-> SortedSeq(S),
     offsets |-> [j \in 1..Cardinality(S) |-> [large |-> FALSE, at |-> PackOffsetOf(j)]],
     large |-> <<>>,
     crcFill |-> fill,
     trailerFill |-> fill]

\* the 8-byte entry git writes for the k-th large offset of the model
LargeOffsetOf(k) == <<k, 0, 0, 1, 0, 0, 0, k>>
\* the v2 index of a pack so big that the objects at the positions L start
\* past 2^31: their offsets are in the large table, in position order
IndexWithLarge(S, fill, L) ==
    LET rank(j) == Cardinality({i \in L : i < j})
    IN [version |-> "V2",
        digests |-> SortedSeq(S),
        offsets |-> [j \in 1..Cardinality(S) |->
                        IF j \in L THEN [large |-> TRUE, at |-> rank(j)]
                        ELSE [large |-> FALSE, at |-> PackOffsetOf(j)]],
        large |-> [k \in 1..Cardinality(L) |-> LargeOffsetOf(k)],
        crcFill |-> fill,
        trailerFill |-> fill]
\* which objects of an index of n a model's big pack stores past 2^31
LargePositions(n) == {L \in {{}, {1}, {n}, 1..n} : L \subseteq 1..n}

\* the abbreviations a caller asks the database about: the leading hex
\* characters of an id, up to MaxHashLen of them, or all 32 or 40
AbbreviationsOf(d) ==
    {SubSeq(HexOf(d), 1, k) : k \in 0..MaxHashLen}
        \cup {HexOf(d), HexOf(full_oid_to_u128_oid(d))}
Abbreviations == UNION {AbbreviationsOf(d) : d \in DigestUniverse}

\* partial ids a caller can hold in build b
PartialsOf(b) ==
    {from_hash(h, b).val : h \in {g \in Abbreviations : from_hash(g, b).tag = "Ok"}}
DebugPartials == PartialsOf("debug")
ReleasePartials == PartialsOf("release")
BuiltPartials(b) == IF b = "debug" THEN DebugPartials ELSE ReleasePartials

---------------------------------------------------------------------------
(* Pack index files: packed/index.rs                                       *)

V2_IDX_SIGNATURE == <<255, 116, 79, 99>>
V2_IDX_VERSION_NUMBER_BYTES == <<0, 0, 0, 2>>
FANOUT_LENGTH == 256
FANOUT_ENTRY_SIZE == 4
IDX_TRAILER_SIZE == SHA1_SIZE * 2
V1_HEADER_SIZE == FANOUT_LENGTH * FANOUT_ENTRY_SIZE
V2_HEADER_SIZE == FANOUT_ENTRY_SIZE * 2 + FANOUT_LENGTH * FANOUT_ENTRY_SIZE
N32_SIZE == 4
N64_SIZE == 8

\* byte k (0 = most significant) of the big-endian u32 v
BE32(v, k) == (v \div Pow2(8 * (3 - k))) % 256

(* The bytes of a well-formed index file.  f.version is "V1" or "V2",      *)
(* f.digests the 20-byte digests in ascending order, f.offsets the pack    *)
(* offset of each (an index into f.large, flagged, when it is large),      *)
(* f.large the 8-byte large offsets, f.crcFill and f.trailerFill the byte  *)
(* the crc32 table and the two trailing checksums are filled with.         *)
NumDigests(f) == Len(f.digests)
FanoutCount(f, b) == Cardinality({i \in 1..NumDigests(f) : f.digests[i][1] <= b})

IdxLen(f) ==
    IF f.version = "V2"
    THEN V2_HEADER_SIZE + NumDigests(f) * (SHA1_SIZE + 2 * FANOUT_ENTRY_SIZE)
         + Len(f.large) * N64_SIZE + IDX_TRAILER_SIZE
    ELSE V1_HEADER_SIZE + NumDigests(f) * (FANOUT_ENTRY_SIZE + SHA1_SIZE) + IDX_TRAILER_SIZE

\* the 4-byte offset-table entry of digest j (1-based): its offset, or the
\* flagged index into the large table
OffsetEntryByte(f, j, k) ==
    IF f.offsets[j].large
    THEN (IF k = 0 THEN 128 ELSE 0) + BE32(f.offsets[j].at, k)
    ELSE BE32(f.offsets[j].at, k)

IdxByteV2(f, pos) ==
    LET n == NumDigests(f)
        digestsAt == V2_HEADER_SIZE
        crcAt == digestsAt + n * SHA1_SIZE
        offsetsAt == crcAt + n * FANOUT_ENTRY_SIZE
        largeAt == offsetsAt + n * N32_SIZE
        trailerAt == largeAt + Len(f.large) * N64_SIZE
    IN IF pos < 4 THEN V2_IDX_SIGNATURE[pos + 1]
       ELSE IF pos < 8 THEN V2_IDX_VERSION_NUMBER_BYTES[pos - 3]
       ELSE IF pos < digestsAt
            THEN BE32(FanoutCount(f, (pos - 8) \div FANOUT_ENTRY_SIZE), (pos - 8) % FANOUT_ENTRY_SIZE)
       ELSE IF pos < crcAt
            THEN f.digests[(pos - digestsAt) \div SHA1_SIZE + 1][((pos - digestsAt) % SHA1_SIZE) + 1]
       ELSE IF pos < offsetsAt THEN f.crcFill
       ELSE IF pos < largeAt
            THEN OffsetEntryByte(f, (pos - offsetsAt) \div N32_SIZE + 1, (pos - offsetsAt) % N32_SIZE)
       ELSE IF pos < trailerAt
            THEN f.large[(pos - largeAt) \div N64_SIZE + 1][((pos - largeAt) % N64_SIZE) + 1]
       ELSE f.trailerFill

IdxByteV1(f, pos) ==
    LET entry == FANOUT_ENTRY_SIZE + SHA1_SIZE
        trailerAt == V1_HEADER_SIZE + NumDigests(f) * entry
        j == (pos - V1_HEADER_SIZE) \div entry + 1
        k == (pos - V1_HEADER_SIZE) % entry
    IN IF pos < V1_HEADER_SIZE
       THEN BE32(FanoutCount(f, pos \div FANOUT_ENTRY_SIZE), pos % FANOUT_ENTRY_SIZE)
       ELSE IF pos < trailerAt
            THEN (IF k < FANOUT_ENTRY_SIZE THEN BE32(f.offsets[j].at, k)
                  ELSE f.digests[j][k - FANOUT_ENTRY_SIZE + 1])
       ELSE f.trailerFill

\* the byte at position pos (0-based) of the mapped file, pos < IdxLen(f)
IdxByte(f, pos) == IF f.version = "V2" THEN IdxByteV2(f, pos) ELSE IdxByteV1(f, pos)

\* Mmap::get(start..start+len): the bytes, or None when the range leaves the file
IdxGet(f, start, len) ==
    IF start + len <= IdxLen(f)
    THEN Some([k \in 1..len |-> IdxByte(f, start + k - 1)])
    ELSE None

\* BigEndian::read_u32 of a value known to be below 2^31
ReadU32(bytes) == ((bytes[1] * 256 + bytes[2]) * 256 + bytes[3]) * 256 + bytes[4]

\* open_idx_file / open_idx_file_light: the version by the signature,
\* fanout_table[b] by fill_fan, num_objects = fanout_table[255]
OpenedVersion(f) ==
    IF [k \in 1..4 |-> IdxByte(f, k - 1)] = V2_IDX_SIGNATURE THEN "V2" ELSE "V1"
FanoutStart(f) == IF OpenedVersion(f) = "V2" THEN 2 * FANOUT_ENTRY_SIZE ELSE 0
fanout_table(f, b) ==
    ReadU32([k \in 1..FANOUT_ENTRY_SIZE |-> IdxByte(f, FanoutStart(f) + b * FANOUT_ENTRY_SIZE + k - 1)])
num_objects(f) == fanout_table(f, FANOUT_LENGTH - 1)

\* IDXFileLight::get_oid_starting_index_from_fanout_index
get_oid_starting_index_from_fanout_index(f, fanout_index) ==
    IF OpenedVersion(f) = "V2"
    THEN V2_HEADER_SIZE + fanout_index * SHA1_SIZE
    ELSE V1_HEADER_SIZE + FANOUT_ENTRY_SIZE + fanout_index * (FANOUT_ENTRY_SIZE + SHA1_SIZE)

\* IDXFile::get_oid_at_index
get_oid_at_index(f, index) ==
    LET full_sha == IdxGet(f, get_oid_starting_index_from_fanout_index(f, index), SHA1_SIZE)
    IN IF full_sha.tag = "None" THEN None ELSE Some(full_oid_to_u128_oid(full_sha.val))

\* IDXFile::find_index_for: where the binary search starts and how it narrows
SearchStart(f, first_byte) == IF first_byte > 0 THEN fanout_table(f, first_byte - 1) ELSE 0
SearchEnd(f, first_byte) == fanout_table(f, first_byte)
\* a search that also drops the entry left of the midpoint
NarrowLeftSkipping(mid) == mid - 1
NarrowLeft(mid) == mid
NarrowRight(mid) == mid + 1

RECURSIVE BinarySearch(_, _, _, _)
BinarySearch(f, oid, start_search, end_search) ==
    IF start_search < end_search
    THEN LET mid == (start_search + end_search) \div 2
             mid_id == get_oid_at_index(f, mid)
         IN IF mid_id.tag = "None" THEN Err
            ELSE IF OidLess(oid, mid_id.val) THEN BinarySearch(f, oid, start_search, NarrowLeft(mid))
            ELSE IF OidLess(mid_id.val, oid) THEN BinarySearch(f, oid, NarrowRight(mid), end_search)
            ELSE Ok(Some(mid))
    ELSE Ok(None)

find_index_for(f, oid) ==
    LET first_byte == get_first_byte_of_oid(oid)
    IN BinarySearch(f, oid, SearchStart(f, first_byte), SearchEnd(f, first_byte))

\* IDXFileLight::find_packfile_index_from_fanout_index: the u64 offset as
\* its 8 big-endian bytes, or None when a read leaves the file
find_packfile_index_from_fanout_index_v1(f, fanout_index) ==
    LET oid_start == V1_HEADER_SIZE + FANOUT_ENTRY_SIZE
                     + fanout_index * (FANOUT_ENTRY_SIZE + SHA1_SIZE)
        desired_bytes == IdxGet(f, oid_start - FANOUT_ENTRY_SIZE, FANOUT_ENTRY_SIZE)
    IN IF desired_bytes.tag = "None" THEN None
       ELSE Some(<<0, 0, 0, 0>> \o desired_bytes.val)

\* a large table read with the stride of the small one
LargeEntryStartNarrow(eight_byte_table_starts_at, eight_byte_table_index) ==
    eight_byte_table_starts_at + eight_byte_table_index * N32_SIZE
\* where entry eight_byte_table_index of the large offset table starts
LargeEntryStart(eight_byte_table_starts_at, eight_byte_table_index) ==
    eight_byte_table_starts_at + eight_byte_table_index * N64_SIZE

find_packfile_index_from_fanout_index_v2(f, fanout_index) ==
    LET crc_table_starts_at == V2_HEADER_SIZE + num_objects(f) * SHA1_SIZE
        four_byte_offset_table_starts_at == crc_table_starts_at + num_objects(f) * FANOUT_ENTRY_SIZE
        this_entry_starts == four_byte_offset_table_starts_at + fanout_index * FANOUT_ENTRY_SIZE
        eight_byte_table_starts_at == four_byte_offset_table_starts_at + num_objects(f) * FANOUT_ENTRY_SIZE
        Large(eight_byte_table_index) ==
            \* an index past the file length cannot be in range
            IF eight_byte_table_index > IdxLen(f) THEN None
            ELSE IdxGet(f, LargeEntryStart(eight_byte_table_starts_at, eight_byte_table_index), N64_SIZE)
        Entry(desired_bytes) ==
            IF desired_bytes.tag = "None" THEN None
            ELSE IF desired_bytes.val[1] < 128 THEN Some(<<0, 0, 0, 0>> \o desired_bytes.val)
            ELSE Large(ReadU32([desired_bytes.val EXCEPT ![1] = desired_bytes.val[1] - 128]))
    IN Entry(IdxGet(f, this_entry_starts, FANOUT_ENTRY_SIZE))

find_packfile_index_from_fanout_index(f, fanout_index) ==
    IF OpenedVersion(f) = "V2"
    THEN find_packfile_index_from_fanout_index_v2(f, fanout_index)
    ELSE find_packfile_index_from_fanout_index_v1(f, fanout_index)

\* what a walk over an index has done so far: the fanout indexes whose digest
\* it read, the Oids (and pack offsets) it handed on, whether the caller's
\* callback asked to stop, whether it panicked
NoWalk == [visited |-> <<>>, hits |-> <<>>, locations |-> <<>>, stopped |-> FALSE, panicked |-> FALSE]

\* IDXFileLight::walk_all_oids_with_index_and_from: where it starts
WalkStart(f, start_byte) == IF start_byte > 0 THEN fanout_table(f, start_byte - 1) ELSE 0

(* IDXFileLight::walk_all_oids_with_index_and_from, from current_fanout_index *)
(* with `remaining` iterations left, under one of the three callbacks the     *)
(* program passes it:                                                         *)
(*   "oids"      find_matching_oids_packed's closure                          *)
(*   "locations" get_partial_matches_with_locations, callback returning false *)
(*   "first"     get_partial_matches_with_locations, callback returning true  *)
RECURSIVE WalkLight(_, _, _, _, _, _, _)
WalkLight(f, p, b, mode, current_fanout_index, remaining, acc) ==
    IF remaining = 0 THEN acc
    ELSE LET \* the callback on the oid just read: m is whether it matches,
             \* location where its object starts in the pack
             Callback(oid, m, location) ==
                 LET reported == /\ m = Ok(TRUE)
                                 /\ (mode = "oids" \/ location.tag = "Some")
                     seen == [acc EXCEPT !.visited = Append(@, current_fanout_index)]
                     after == IF reported
                              THEN [seen EXCEPT !.hits = Append(@, oid),
                                                !.locations = IF mode = "oids" THEN @
                                                              ELSE Append(@, location.val)]
                              ELSE seen
                 IN IF m.tag = "Panic" THEN [seen EXCEPT !.panicked = TRUE]
                    ELSE IF reported /\ mode = "first" THEN [after EXCEPT !.stopped = TRUE]
                    ELSE IF get_first_byte_of_oid(oid) > get_first_byte_of_oid(p.oid) THEN after
                    ELSE WalkLight(f, p, b, mode, current_fanout_index + 1, remaining - 1, after)
             Walked(oid) ==
                 Callback(oid, PartialMatches(p, oid, b),
                          find_packfile_index_from_fanout_index(f, current_fanout_index))
             Read(sha_bytes) ==
                 IF sha_bytes.tag = "None" THEN [acc EXCEPT !.panicked = TRUE]
                 ELSE Walked(full_oid_to_u128_oid(sha_bytes.val))
         IN Read(IdxGet(f, get_oid_starting_index_from_fanout_index(f, current_fanout_index),
                        SHA1_SIZE))

\* IDXState::get_partial_matches_with_locations and walk_all_oids_from, as
\* the facade calls them: start_byte is the first byte of the partial id
walk_partial(f, p, b, mode) ==
    WalkLight(f, p, b, mode, WalkStart(f, get_first_byte_of_oid(p.oid)), num_objects(f), NoWalk)

\* the loop of walk_all_oids_with_index_and_from under a callback that
\* returns true on its stops_at-th call (never, when stops_at = 0)
RECURSIVE WalkAllLoop(_, _, _, _, _)
WalkAllLoop(f, stops_at, current_fanout_index, remaining, acc) ==
    IF remaining = 0 THEN acc
    ELSE LET Read(sha_bytes) ==
                 IF sha_bytes.tag = "None" THEN [acc EXCEPT !.panicked = TRUE]
                 ELSE LET seen == [acc EXCEPT !.visited = Append(@, current_fanout_index),
                                              !.hits = Append(@, full_oid_to_u128_oid(sha_bytes.val))]
                      IN IF Len(seen.visited) = stops_at THEN [seen EXCEPT !.stopped = TRUE]
                         ELSE WalkAllLoop(f, stops_at, current_fanout_index + 1, remaining - 1, seen)
         IN Read(IdxGet(f, get_oid_starting_index_from_fanout_index(f, current_fanout_index),
                        SHA1_SIZE))

\* IDXFileLight::walk_all_oids_with_index_and_from(start_byte, cb)
walk_all_oids_with_index_and_from(f, start_byte, stops_at) ==
    WalkAllLoop(f, stops_at,
                IF start_byte.tag = "Some" THEN WalkStart(f, start_byte.val) ELSE 0,
                num_objects(f), NoWalk)

\* IDXFile::walk_all_oids under the closure of try_find_match_from_partial
RECURSIVE WalkFull(_, _, _, _, _, _)
WalkFull(f, p, b, index, remaining, found_matches) ==
    IF remaining = 0 THEN Ok(found_matches)
    ELSE LET oid == get_oid_at_index(f, index)
         IN IF oid.tag = "None" THEN Ok(found_matches)
            ELSE LET m == PartialMatches(p, oid.val, b)
                     found == IF m = Ok(TRUE) THEN Append(found_matches, oid.val) ELSE found_matches
                 IN IF m.tag = "Panic" THEN Panic
                    ELSE IF get_first_byte_of_oid(oid.val) > get_first_byte_of_oid(p.oid) THEN Ok(found)
                    ELSE WalkFull(f, p, b, index + 1, remaining - 1, found)

\* IDXFile::try_find_match_from_partial
try_find_match_from_partial(f, p, b) ==
    LET walked == WalkFull(f, p, b, 0, num_objects(f), <<>>)
    IN IF walked.tag = "Panic" THEN Panic
       ELSE IF Len(walked.val) = 0 THEN [tag |-> "FoundNone"]
       ELSE IF Len(walked.val) = 1 THEN [tag |-> "FoundMatch", val |-> walked.val[1]]
       ELSE [tag |-> "FoundMultiple", val |-> walked.val]

\* PartiallyResolvedLooseMap::try_find_match_from_partial: the keys the loop
\* over the HashMap can return, in whatever order the map iterates
LooseMapMatch(key, partial_oid) == OidAnd(key, partial_oid) = partial_oid
loose_try_find_match_from_partial(map, partial_oid) ==
    IF \E key \in map : LooseMapMatch(key, partial_oid)
    THEN {Some(key) : key \in {k \in map : LooseMapMatch(k, partial_oid)}}
    ELSE {None}

---------------------------------------------------------------------------
(* The objects directory and the enumerations over it: fs_helpers.rs,      *)
(* state.rs (MinState), object_database/mod.rs (LightObjectDB)             *)

(* d.loose maps the first byte of each existing loose folder <hh> to the    *)
(* names of the files in it; d.packDir tells whether <base>/pack exists;    *)
(* d.idx maps the number standing for a 40-hex pack id to the index file    *)
(* pack-<id>.idx, which has a sibling pack-<id>.pack.                       *)
Missing == [tag |-> "Missing"]
Dir(entries) == [tag |-> "Dir", entries |-> entries]
LooseFolder(d, b) == IF b \in DOMAIN d.loose THEN Dir(d.loose[b]) ELSE Missing
PackFolder(d) ==
    IF d.packDir
    THEN Dir({[id |-> k, ext |-> e] : k \in DOMAIN d.idx, e \in {"idx", "pack"}})
    ELSE Missing

\* fs::read_dir under search_folder_out: a missing directory is an error
search_folder_out(dir) == IF dir.tag = "Missing" THEN Err ELSE Ok(dir.entries)
\* search_folder_out_missing_ok: NotFound ends the search with Ok(())
search_folder_out_missing_ok(dir) == IF dir.tag = "Missing" THEN Ok({}) ELSE Ok(dir.entries)

\* the orders in which fs::read_dir can yield the entries of a directory
Orders(S) ==
    {q \in [1..Cardinality(S) -> S] : \A i, j \in 1..Cardinality(S) : q[i] = q[j] => i = j}

\* the entries of a directory, none when it is missing
EntriesOf(dir) == IF dir.tag = "Missing" THEN {} ELSE dir.entries

\* the 38-character file name of a loose object, and HEX_BYTES[b]
LooseFileName(d) == SubSeq(HexOf(d), 3, 2 * SHA1_SIZE)
HEX_BYTES(b) == <<b \div 16, b % 16>>

\* hash_object_file_and_folder: &filename[0..30] panics on a shorter name
hash_object_file_and_folder(folder, filename) ==
    IF Len(filename) < OID_STR_LEN - 2 THEN Panic
    ELSE oid_str_truncated_to_oid(folder \o SubSeq(filename, 1, OID_STR_LEN - 2))

\* what one enumeration did: its result and what it handed to the callback
Outcome(ret, hits) == [ret |-> ret, hits |-> hits]

\* MinState::iter_loose_folder under a callback that never asks to stop:
\* the Oid of every entry whose name parses
iter_loose_folder(d, folder_byte) ==
    LET listing == search_folder_out(LooseFolder(d, folder_byte))
        parsed == [n \in listing.val |-> hash_object_file_and_folder(HEX_BYTES(folder_byte), n)]
    IN IF listing.tag = "Err" THEN Outcome(Err, {})
       ELSE Outcome(IF \E n \in listing.val : parsed[n].tag = "Panic" THEN Panic ELSE Ok(<<>>),
                    {parsed[n].val : n \in {m \in listing.val : parsed[m].tag = "Ok"}})

\* parse_pack_or_idx_id on the name pack-<40 hex>.idx
parse_pack_or_idx_id(entry) == Some(entry.id)

\* MinState::iter_known_packs under a callback that never asks to stop: the
\* id of every *.idx entry
iter_known_packs(d) ==
    LET listing == search_folder_out(PackFolder(d))
    IN IF listing.tag = "Err" THEN Outcome(Err, {})
       ELSE Outcome(Ok(<<>>), {parse_pack_or_idx_id(e).val : e \in {x \in listing.val : x.ext = "idx"}})

\* MinState::get_idx_file: open_idx_file_light on pack-<id>.idx
MINIMAL_IDX_FILE_SIZE == IDX_TRAILER_SIZE + FANOUT_LENGTH * FANOUT_ENTRY_SIZE
get_idx_file(d, id) ==
    IF id \notin DOMAIN d.idx THEN Err
    ELSE IF IdxLen(d.idx[id]) < MINIMAL_IDX_FILE_SIZE THEN Err
    ELSE Ok(d.idx[id])

\* LightObjectDB::find_matching_oids_loose
find_matching_oids_loose(d, p, b) ==
    LET walked == iter_loose_folder(d, get_first_byte_of_oid(p.oid))
        m == [oid \in walked.hits |-> PartialMatches(p, oid, b)]
    IN IF \E oid \in walked.hits : m[oid].tag = "Panic" THEN Outcome(Panic, {})
       ELSE Outcome(walked.ret, {oid \in walked.hits : m[oid] = Ok(TRUE)})

\* LightObjectDB::find_matching_oids_packed: an index that fails to open is
\* skipped, every other one is walked from the first byte of the partial id
find_matching_oids_packed(d, p, b) ==
    LET Walk(file) == IF file.tag = "Ok" THEN walk_partial(file.val, p, b, "oids") ELSE NoWalk
        Gathered(walk) ==
            Outcome(IF \E id \in DOMAIN walk : walk[id].panicked THEN Panic ELSE Ok(<<>>),
                    UNION {SeqRange(walk[id].hits) : id \in DOMAIN walk})
        Searched(packs) ==
            IF packs.ret.tag = "Err" THEN Outcome(Err, {})
            ELSE Gathered([id \in packs.hits |-> Walk(get_idx_file(d, id))])
    IN Searched(iter_known_packs(d))

\* LightObjectDB::find_matching_oids: loose, then packed, each under `?`
find_matching_oids(d, p, b) ==
    LET Then(loose, packed) ==
            IF loose.ret.tag # "Ok" THEN loose
            ELSE Outcome(packed.ret, loose.hits \cup packed.hits)
    IN Then(find_matching_oids_loose(d, p, b), find_matching_oids_packed(d, p, b))

\* find_matching_oids_loose_with_locations under a callback that answers
\* true: the first entry, in the order the folder is read, that matches
RECURSIVE FirstLoose(_, _, _, _, _)
FirstLoose(p, b, hex_key, order, k) ==
    IF k > Len(order) THEN None
    ELSE LET Matched(oid, m) ==
                 IF m.tag = "Panic" THEN Panic
                 ELSE IF m = Ok(TRUE)
                 THEN Some([kind |-> "Loose", oid |-> oid, file |-> order[k]])
                 ELSE FirstLoose(p, b, hex_key, order, k + 1)
             Tried(oid) ==
                 IF oid.tag = "Panic" THEN Panic
                 ELSE IF oid.tag = "Err" THEN FirstLoose(p, b, hex_key, order, k + 1)
                 ELSE Matched(oid.val, PartialMatches(p, oid.val, b))
         IN Tried(hash_object_file_and_folder(hex_key, order[k]))

\* find_matching_oids_packed_with_locations under a callback that answers
\* true: the packs are opened in the order the pack directory is read, one
\* that fails to open is skipped, and the first hit of a walk ends the search
RECURSIVE FirstPacked(_, _, _, _, _, _)
FirstPacked(d, p, b, order, k, opened) ==
    IF k > Len(order) THEN [found |-> None, opened |-> opened]
    ELSE LET Searched(walk) ==
                 IF walk.panicked THEN [found |-> Panic, opened |-> opened \cup {order[k]}]
                 ELSE IF walk.stopped
                 THEN [found |-> Some([kind |-> "Packed", oid |-> walk.hits[1], id |-> order[k],
                                       location |-> walk.locations[1]]),
                       opened |-> opened \cup {order[k]}]
                 ELSE FirstPacked(d, p, b, order, k + 1, opened \cup {order[k]})
             Opened(file) ==
                 IF file.tag # "Ok" THEN FirstPacked(d, p, b, order, k + 1, opened)
                 ELSE Searched(walk_partial(file.val, p, b, "first"))
         IN Opened(get_idx_file(d, order[k]))

\* LightObjectDB::find_first_matching_oid_with_location: the loose search
\* under `?`, its hit if any, then the packed search under `?`
find_first_matching_oid_with_location(d, p, b, loose_order, pack_order) ==
    LET first_byte == get_first_byte_of_oid(p.oid)
        Result(ret, opened) == [ret |-> ret, opened |-> opened]
        Packed(res) ==
            Result(IF res.found.tag = "Some" THEN Ok(res.found.val)
                   ELSE IF res.found.tag = "Panic" THEN Panic ELSE Err,
                   res.opened)
        Loose(found) ==
            IF found.tag = "Panic" THEN Result(Panic, {})
            ELSE IF found.tag = "Some" THEN Result(Ok(found.val), {})
            ELSE IF search_folder_out(PackFolder(d)).tag = "Err" THEN Result(Err, {})
            ELSE Packed(FirstPacked(d, p, b, pack_order, 1, {}))
    IN IF search_folder_out(LooseFolder(d, first_byte)).tag = "Err" THEN Result(Err, {})
       ELSE Loose(FirstLoose(p, b, HEX_BYTES(first_byte), loose_order, 1))

\* LightObjectDB::get_all_loose_oids_at_folder: Loose(oid, rest) for every
\* 38-character name; a name that does not parse ends the search with Err
LooseLocation(folder, filename) ==
    LET first_part == from_str_radix(SubSeq(filename, 1, OID_STR_LEN - 2))
        rest_part == from_str_radix(SubSeq(filename, OID_STR_LEN - 1, 2 * SHA1_SIZE - 2))
    IN IF first_part.tag = "Err" \/ rest_part.tag = "Err" THEN Err
       ELSE Ok([kind |-> "Loose", oid |-> <<folder>> \o first_part.val, rest |-> rest_part.val])

get_all_loose_oids_at_folder(d, folder) ==
    LET listing == search_folder_out_missing_ok(LooseFolder(d, folder))
        named == {n \in listing.val : Len(n) = 2 * SHA1_SIZE - 2}
        found == [n \in named |-> LooseLocation(folder, n)]
    IN Outcome(IF \E n \in named : found[n].tag = "Err" THEN Err ELSE Ok(<<>>),
               {found[n].val : n \in {m \in named : found[m].tag = "Ok"}})

\* LightObjectDB::get_all_loose_oids: the folders 00..ff in turn, under `?`
get_all_loose_oids(d) ==
    LET at == [folder \in 0..(FANOUT_LENGTH - 1) |-> get_all_loose_oids_at_folder(d, folder)]
    IN Outcome(IF \E folder \in DOMAIN at : at[folder].ret.tag = "Err" THEN Err ELSE Ok(<<>>),
               UNION {at[folder].hits : folder \in DOMAIN at})

\* the length of the name pack-<40 hex>.idx or pack-<40 hex>.pack
PackEntryNameLen(entry) == 5 + 2 * SHA1_SIZE + 1 + (IF entry.ext = "idx" THEN 3 ELSE 4)

\* LightObjectDB::get_all_packs: Packed(id) for every 49-character *.idx name
get_all_packs(d) ==
    LET listing == search_folder_out(PackFolder(d))
        named == {e \in listing.val : PackEntryNameLen(e) = 49 /\ e.ext = "idx"}
    IN IF listing.tag = "Err" THEN Outcome(Err, {})
       ELSE Outcome(Ok(<<>>), {[kind |-> "Packed", id |-> parse_pack_or_idx_id(e).val] : e \in named})

\* LightObjectDB::iter_all_known_objects
iter_all_known_objects(d) ==
    LET loose == get_all_loose_oids(d)
        packed == get_all_packs(d)
    IN IF loose.ret.tag # "Ok" THEN loose
       ELSE Outcome(packed.ret, loose.hits \cup packed.hits)

\* most objects a database of the model holds, and most packs
MaxDbObjects == 2
MaxPacks == 2

(* The objects directory git leaves for the objects S, place[d] = 0 for a    *)
(* loose object and k > 0 for an object of pack k: a loose folder exists    *)
(* for the first byte of each loose object, and for every first byte of the *)
(* model when emptied folders were kept.                                    *)
ObjectsDir(S, place, version, fill, keptFolders, packDir) ==
    LET looseObjects == {d \in S : place[d] = 0}
        folders == {d[1] : d \in looseObjects} \cup (IF keptFolders THEN FirstBytes ELSE {})
        packs == {place[d] : d \in S} \ {0}
    IN [loose |-> [b \in folders |-> {LooseFileName(d) : d \in {x \in looseObjects : x[1] = b}}],
        packDir |-> packDir,
        idx |-> [k \in packs |-> IndexOf({d \in S : place[d] = k}, version, fill)]]

\* the objects stored in a directory, loose or packed, as Oids
LooseOids(d) ==
    UNION {{oid_str_truncated_to_oid(HEX_BYTES(b) \o SubSeq(n, 1, OID_STR_LEN - 2)).val : n \in d.loose[b]}
            : b \in DOMAIN d.loose}
PackedOids(d) ==
    UNION {{full_oid_to_u128_oid(d.idx[k].digests[j]) : j \in 1..NumDigests(d.idx[k])} : k \in DOMAIN d.idx}

---------------------------------------------------------------------------
(* The delta patcher: packed/delta.rs                                      *)

\* the operand of a copy opcode: for i in 0..count, when bit i of flags is set
\* the next byte of the stream is or-ed in, shifted left by 8 * i; reading
\* delta_data[index] past the end of the stream panics
RECURSIVE ReadOperand(_, _, _, _, _)
ReadOperand(delta, index, flags, i, count) ==
    IF i = count THEN [value |-> 0, index |-> index, panicked |-> FALSE]
    ELSE IF (flags \div Pow2(i)) % 2 = 1
         THEN IF index >= Len(delta) THEN [value |-> 0, index |-> index, panicked |-> TRUE]
              ELSE LET rest == ReadOperand(delta, index + 1, flags, i + 1, count)
                   IN [rest EXCEPT !.value = @ + delta[index + 1] * Pow2(8 * i)]
         ELSE ReadOperand(delta, index, flags, i + 1, count)

\* the length a copy opcode copies: 0 stands for 1 << 16
CopyLen(copy_len) == IF copy_len = 0 THEN Pow2(16) ELSE copy_len

\* output[result_pos] = ... for n bytes in a row: whether every index stays
\* inside the output vector
WriteFits(result_pos, n, out_len) == result_pos + n <= out_len
\* base_data[base_pos] for n bytes in a row
ReadFits(base_pos, n, base_len) == base_pos + n <= base_len

\* the while loop of apply_delta from `index` on; result_pos is the number of
\* bytes the opcodes have written into output so far
RECURSIVE DeltaLoop(_, _, _, _, _)
DeltaLoop(base, delta, index, result_pos, output) ==
    IF index >= Len(delta)
    THEN [tag |-> "Ok", val |-> output, result_pos |-> result_pos]
    ELSE LET opcode == delta[index + 1]
         IN IF opcode >= 128
            THEN LET copy_offset == ReadOperand(delta, index + 1, opcode % 16, 0, 4)
                     copy_len == ReadOperand(delta, copy_offset.index, (opcode \div 16) % 8, 0, 3)
                     n == CopyLen(copy_len.value)
                 IN IF copy_offset.panicked \/ copy_len.panicked THEN Panic
                    ELSE IF ~ReadFits(copy_offset.value, n, Len(base)) THEN Panic
                    ELSE IF ~WriteFits(result_pos, n, Len(output)) THEN Panic
                    ELSE DeltaLoop(base, delta, copy_len.index, result_pos + n,
                                   [k \in 1..Len(output) |->
                                       IF k > result_pos /\ k <= result_pos + n
                                       THEN base[copy_offset.value + k - result_pos]
                                       ELSE output[k]])
            ELSE IF opcode > 0
            THEN IF index + 1 + opcode > Len(delta) THEN Panic
                 ELSE IF ~WriteFits(result_pos, opcode, Len(output)) THEN Panic
                 ELSE DeltaLoop(base, delta, index + 1 + opcode, result_pos + opcode,
                                [k \in 1..Len(output) |->
                                    IF k > result_pos /\ k <= result_pos + opcode
                                    THEN delta[index + 1 + k - result_pos]
                                    ELSE output[k]])
            ELSE Err

\* apply_delta(base_data, delta_data, output_len)
apply_delta(base, delta, out_len) == DeltaLoop(base, delta, 0, 0, [k \in 1..out_len |-> 0])

\* longest opcode stream, base payload and declared result size of the model
MaxDeltaLen == 4
MaxBaseLen == 2
MaxOutputLen == 3
\* bytes of the opcode streams: insert lengths and operands 0, 1, 2, the copy
\* opcodes 0x80 (no operand), 0x90 (one length byte), 0x91 (offset and length)
DeltaBytes == {0, 1, 2, 128, 144, 145}
\* the payload of a base object of n bytes
BasePayload(n) == [k \in 1..n |-> 6 + k]

---------------------------------------------------------------------------
(* The loose object reader: objects.rs                                     *)

\* the header buffer of read_and_extract_header: let mut header_buf = [0; 128]
HEADER_BUF_LEN == 128

\* ASCII
SpaceByte == 32
ZeroDigit == 48
TypeName(otype) ==
    IF otype = "commit" THEN <<99, 111, 109, 109, 105, 116>>
    ELSE IF otype = "tree" THEN <<116, 114, 101, 101>>
    ELSE IF otype = "blob" THEN <<98, 108, 111, 98>>
    ELSE <<116, 97, 103>>

\* the decimal digits of n
RECURSIVE Decimal(_)
Decimal(n) == IF n < 10 THEN <<ZeroDigit + n>> ELSE Append(Decimal(n \div 10), ZeroDigit + (n % 10))

\* what the zlib stream of a loose file decompresses to:
\* <type> <space> <decimal size> <NUL> <payload>
ObjectStream(file) ==
    TypeName(file.otype) \o <<SpaceByte>> \o Decimal(file.declared) \o <<0>> \o file.payload

\* str::parse::<usize> on ASCII digits
RECURSIVE ParseUsize(_)
ParseUsize(digits) ==
    IF Len(digits) = 0 THEN None
    ELSE IF \E k \in 1..Len(digits) : digits[k] < ZeroDigit \/ digits[k] > ZeroDigit + 9 THEN None
    ELSE IF Len(digits) = 1 THEN Some(digits[1] - ZeroDigit)
    ELSE Some(10 * ParseUsize(SubSeq(digits, 1, Len(digits) - 1)).val + digits[Len(digits)] - ZeroDigit)

\* UnparsedObjectType::from_str
ObjectTypeFromStr(name) ==
    IF \E t \in {"commit", "tree", "blob", "tag"} : TypeName(t) = name
    THEN Some(CHOOSE t \in {"commit", "tree", "blob", "tag"} : TypeName(t) = name)
    ELSE None

\* position (1-based) of the first element of q equal to x, 0 when there is none
FirstIndexOf(q, x) ==
    IF \E k \in 1..Len(q) : q[k] = x
    THEN CHOOSE k \in 1..Len(q) : q[k] = x /\ \A j \in 1..(k - 1) : q[j] # x
    ELSE 0

\* decode_object_header: (type string, size, index where the payload starts)
decode_object_header(input) ==
    LET nul == FirstIndexOf(input, 0)
        header == SubSeq(input, 1, nul - 1)
        sp == FirstIndexOf(header, SpaceByte)
        size_and_rest == SubSeq(header, sp + 1, Len(header))
        sp2 == FirstIndexOf(size_and_rest, SpaceByte)
        object_size_str == IF sp2 = 0 THEN size_and_rest ELSE SubSeq(size_and_rest, 1, sp2 - 1)
        object_size == ParseUsize(object_size_str)
    IN IF nul = 0 \/ sp = 0 \/ object_size.tag = "None" THEN None
       ELSE Some([object_type_str |-> SubSeq(header, 1, sp - 1),
                  payload_size |-> object_size.val,
                  payload_starts_at |-> nul])

\* read_and_extract_header: the first decompress call fills at most the 128
\* bytes of header_buf; total_out is how much of the stream it produced
read_and_extract_header(file) ==
    LET stream == ObjectStream(file)
        total_out == Min(HEADER_BUF_LEN, Len(stream))
        header_buf == [k \in 1..HEADER_BUF_LEN |-> IF k <= total_out THEN stream[k] ELSE 0]
        Info(decoded, object_type) ==
            IF object_type.tag = "None" THEN Err
            ELSE Ok([payload_starts_at |-> decoded.payload_starts_at,
                     payload_size |-> decoded.payload_size,
                     object_type |-> object_type.val,
                     decompressed_buf |-> header_buf,
                     total_out |-> total_out])
        Decoded(decoded) ==
            IF decoded.tag = "None" THEN Err
            ELSE Info(decoded.val, ObjectTypeFromStr(decoded.val.object_type_str))
    IN Decoded(decode_object_header(header_buf))

\* how many bytes of header_buf read_raw_object copies into the payload
DesiredBytes(info) == HEADER_BUF_LEN - info.payload_starts_at

\* read_raw_object(path, should_read_blobs)
read_raw_object(file, read_blobs) ==
    LET \* decompress_remaining continues the stream into output_buffer[bytes_out..]
        Remaining(info, stream, desired_bytes, bytes_out, written) ==
            Ok([object_type |-> info.object_type,
                payload |-> [k \in 1..info.payload_size |->
                                IF k <= desired_bytes
                                THEN info.decompressed_buf[info.payload_starts_at + k]
                                ELSE IF k > bytes_out /\ k <= bytes_out + written
                                THEN stream[info.total_out + k - bytes_out]
                                ELSE 0]])
        Copied(info, stream, desired_bytes, bytes_out) ==
            \* desired_out[0..desired_bytes]: the range must end inside the vector
            IF desired_bytes > info.payload_size THEN Panic
            ELSE IF bytes_out > info.payload_size THEN Panic
            ELSE Remaining(info, stream, desired_bytes, bytes_out,
                           Min(Len(stream) - info.total_out, info.payload_size - bytes_out))
        Body(info) ==
            IF ~read_blobs /\ info.object_type = "blob"
            THEN Ok([object_type |-> info.object_type, payload |-> <<>>])
            ELSE Copied(info, ObjectStream(file), DesiredBytes(info),
                        info.total_out - info.payload_starts_at)
        Read(first_read_info) ==
            IF first_read_info.tag = "Err" THEN Err ELSE Body(first_read_info.val)
    IN Read(read_and_extract_header(file))

\* longest payload of a loose object of the model
MaxPayloadLen == 130
\* the first byte of a payload; each next byte is one more
PayloadSeeds == {0, 65}
Payload(n, seed) == [k \in 1..n |-> (seed + k - 1) % 256]
\* how many bytes fewer than its header declares a stream can hold
CutLens == {0, 1, 3}

---------------------------------------------------------------------------
(* Pack files: packed/pack.rs                                              *)

PACK_SIGNATURE == <<80, 65, 67, 75>>
ACCEPTABLE_VERSION_NUMBERS == {2, 3}
PACK_HEADER_SIZE == 4 + 4 + 4
MINIMAL_PACK_FILE_SIZE == PACK_HEADER_SIZE + 4
\* how many bytes get_object_type_and_len_at_index asks of the file
try_read_size == 18

\* the process dies of stack exhaustion
Overflow == [tag |-> "Overflow"]

\* mmapped_file.get(start..end): None unless the range lies in the file
PackGet(file, start, end) ==
    IF start > end \/ end > Len(file) THEN None
    ELSE Some(SubSeq(file, start + 1, end))

\* Adler-32 of a short byte string, as zlib appends it to a stream
RECURSIVE SumBytes(_, _)
SumBytes(q, k) == IF k = 0 THEN 0 ELSE SumBytes(q, k - 1) + q[k]
RECURSIVE AdlerB(_, _)
AdlerB(q, k) == IF k = 0 THEN 0 ELSE AdlerB(q, k - 1) + 1 + SumBytes(q, k)
Adler32(q) ==
    LET a == (1 + SumBytes(q, Len(q))) % 65521
        b == AdlerB(q, Len(q)) % 65521
    IN <<b \div 256, b % 256, a \div 256, a % 256>>

\* a zlib stream holding q in one final stored block: the two header bytes,
\* the block header, LEN and its complement, the bytes, the checksum
Deflate(q) ==
    <<120, 1, 1, Len(q) % 256, Len(q) \div 256,
      255 - (Len(q) % 256), 255 - (Len(q) \div 256)>> \o q \o Adler32(q)

\* Decompress::decompress(input, out, FlushDecompress::None) on a fresh
\* decompressor, out holding out_size bytes: the bytes produced (total_out
\* is their number), or an error for a stream that is not zlib.  The streams
\* of the model are single stored blocks.
Inflate(input, out_size) ==
    LET n == Len(input)
        len == input[4] + 256 * input[5]
        nlen == input[6] + 256 * input[7]
        produced == Min(len, Min(n - 7, out_size))
    IN IF n >= 1 /\ input[1] % 16 # 8 THEN Err
       ELSE IF n >= 2 /\ (input[1] * 256 + input[2]) % 31 # 0 THEN Err
       ELSE IF n >= 2 /\ (input[2] \div 32) % 2 = 1 THEN Err
       ELSE IF n < 3 THEN Ok(<<>>)
       ELSE IF (input[3] \div 2) % 4 # 0 THEN Err
       ELSE IF n < 7 THEN Ok(<<>>)
       ELSE IF len + nlen # 65535 THEN Err
       ELSE IF /\ produced = len
               /\ n >= 7 + len + 4
               /\ SubSeq(input, 8 + len, 11 + len) # Adler32(SubSeq(input, 8, 7 + len))
            THEN Err
       ELSE Ok(SubSeq(input, 8, 7 + produced))

\* PackFileObjectTypeInner::try_from(first_byte & 0b0111_0000)
PackFileObjectTypeInner(tag) ==
    IF tag = 1 THEN Ok("Commit")
    ELSE IF tag = 2 THEN Ok("Tree")
    ELSE IF tag = 3 THEN Ok("Blob")
    ELSE IF tag = 4 THEN Ok("Tag")
    ELSE IF tag = 6 THEN Ok("OfsDelta")
    ELSE IF tag = 7 THEN Ok("RefDelta")
    ELSE Err
SimpleTypes == {"Commit", "Tree", "Blob", "Tag"}
\* PackFileObjectType::into_unparsed_type
into_unparsed_type(kind) ==
    IF kind = "Commit" THEN "commit"
    ELSE IF kind = "Tree" THEN "tree"
    ELSE IF kind = "Blob" THEN "blob"
    ELSE "tag"

\* a loop that never moves the shift on
NextShiftStuck(shift) == shift
\* shift += 7
NextShift(shift) == shift + 7

\* the loop of get_object_type_and_len_at_index over try_parse_segment[1..]
RECURSIVE ReadLength(_, _, _, _)
ReadLength(segment, k, shift, length) ==
    IF k > Len(segment)
    THEN [length |-> length, bytes_read |-> k - 1, found_last_byte |-> FALSE]
    ELSE LET byte == segment[k]
             \* least_7_bits << shift, a u128: 18 bytes fill 123 bits
             next == IF byte % 128 = 0 THEN length ELSE length + (byte % 128) * Pow2(shift)
         IN IF byte < 128
            THEN [length |-> next, bytes_read |-> k, found_last_byte |-> TRUE]
            ELSE ReadLength(segment, k + 1, NextShift(shift), next)

(* A usize (64 bits) as its base-128 digits, least significant first: nine *)
(* digits of 7 bits and a tenth holding bit 63.                            *)
USIZE_BITS == 64
UsizeLen == (USIZE_BITS + 6) \div 7
UsizeTop(k) == IF k = UsizeLen THEN Pow2(USIZE_BITS - 7 * (UsizeLen - 1)) - 1 ELSE 127
UsizeMax == [k \in 1..UsizeLen |-> UsizeTop(k)]
\* the usize of a number below 2^28, and back
UsizeOf(n) ==
    [k \in 1..UsizeLen |-> IF k > 4 THEN 0 ELSE (n \div Pow2(7 * (k - 1))) % 128]
UsizeIsSmall(v) == \A k \in 5..UsizeLen : v[k] = 0
UsizeSmall(v) == v[1] + 128 * v[2] + 128 * 128 * v[3] + 128 * 128 * 128 * v[4]
\* value += 1: overflows on usize::MAX (the debug build panics, the release
\* build wraps to 0)
UsizeAddOne(v, b) ==
    IF v = UsizeMax
    THEN IF b = "debug" THEN Panic ELSE Ok(UsizeOf(0))
    ELSE LET j == CHOOSE j \in 1..UsizeLen :
                     v[j] < UsizeTop(j) /\ \A i \in 1..(j - 1) : v[i] = UsizeTop(i)
         IN Ok([k \in 1..UsizeLen |-> IF k < j THEN 0 ELSE IF k = j THEN v[k] + 1 ELSE v[k]])
\* (value << 7) + low: the bits shifted past bit 63 are dropped
UsizeShl7Add(v, low) ==
    [k \in 1..UsizeLen |-> IF k = 1 THEN low ELSE v[k - 1] % (UsizeTop(k) + 1)]

\* the loop of find_negative_offset over d[1..]
RECURSIVE NegativeOffsetLoop(_, _, _, _)
NegativeOffsetLoop(d, k, value, b) ==
    IF k > Len(d) THEN None
    ELSE LET byte == d[k]
             Shifted(plus_one) ==
                 IF plus_one.tag = "Panic" THEN Panic
                 ELSE IF byte < 128
                 THEN Some([value |-> UsizeShl7Add(plus_one.val, byte % 128), num_read |-> k])
                 ELSE NegativeOffsetLoop(d, k + 1, UsizeShl7Add(plus_one.val, byte % 128), b)
         IN Shifted(UsizeAddOne(value, b))

\* find_negative_offset(d): (distance, bytes read)
find_negative_offset(d, b) ==
    IF Len(d) = 0 THEN Panic
    ELSE IF d[1] < 128 THEN Some([value |-> UsizeOf(d[1] % 128), num_read |-> 1])
    ELSE NegativeOffsetLoop(d, 2, UsizeOf(d[1] % 128), b)

\* the loop of find_encoded_length over d[1..]
RECURSIVE EncodedLengthLoop(_, _, _, _)
EncodedLengthLoop(d, k, shift, value) ==
    IF k > Len(d) THEN None
    ELSE LET byte == d[k]
             next == value + (byte % 128) * Pow2(shift + 7)
         IN IF byte < 128 THEN Some([value |-> next, num_read |-> k])
            ELSE EncodedLengthLoop(d, k + 1, shift + 7, next)

\* find_encoded_length(d): (value, bytes read); d[0] is read unchecked
find_encoded_length(d) ==
    IF Len(d) = 0 THEN Panic
    ELSE IF d[1] < 128 THEN Some([value |-> d[1] % 128, num_read |-> 1])
    ELSE EncodedLengthLoop(d, 2, 0, d[1] % 128)

\* a PackFileObjectType: the kind, and the base of a delta
ObjType(kind, base_starts_at, id) == [kind |-> kind, base_starts_at |-> base_starts_at, id |-> id]

\* PackFile::get_object_type_and_len_at_index(index):
\* (type, length, index where the raw object starts)
get_object_type_and_len_at_index(file, index) ==
    LET try_parse_segment == PackGet(file, index, index + try_read_size)
        first_byte == try_parse_segment.val[1]
        object_type == PackFileObjectTypeInner((first_byte \div 16) % 8)
        read == IF first_byte < 128
                THEN [length |-> first_byte % 16, bytes_read |-> 1, found_last_byte |-> TRUE]
                ELSE ReadLength(try_parse_segment.val, 2, 4, first_byte % 16)
        after == index + read.bytes_read
        negative_offset_data == PackGet(file, after, after + try_read_size)
        negative == find_negative_offset(negative_offset_data.val, build)
        \* distance > index, for an index below 2^28
        distance_gt_index == ~UsizeIsSmall(negative.val.value)
                                \/ UsizeSmall(negative.val.value) > index
        sha_data == PackGet(file, after, after + SHA1_SIZE)
    IN IF try_parse_segment.tag = "None" THEN Err
       ELSE IF object_type.tag = "Err" THEN Err
       ELSE IF ~read.found_last_byte THEN Err
       ELSE IF object_type.val \in SimpleTypes
            THEN Ok([obj_type |-> ObjType(object_type.val, 0, <<>>),
                     length |-> read.length, starts_at |-> after])
       ELSE IF object_type.val = "OfsDelta"
            THEN IF negative_offset_data.tag = "None" THEN Err
                 ELSE IF negative.tag = "None" THEN Err
                 ELSE IF negative.tag = "Panic" THEN Panic
                 ELSE IF distance_gt_index THEN Err
                 ELSE Ok([obj_type |-> ObjType("OfsDelta", index - UsizeSmall(negative.val.value), <<>>),
                          length |-> read.length,
                          starts_at |-> after + negative.val.num_read])
       ELSE IF sha_data.tag = "None" THEN Err
       ELSE Ok([obj_type |-> ObjType("RefDelta", 0, sha_data.val),
                length |-> read.length, starts_at |-> after + SHA1_SIZE])

\* PackFile::get_decompressed_data_from_index(decompressed_size, starts_at)
get_decompressed_data_from_index(file, decompressed_size, starts_at) ==
    LET wanted == starts_at + decompressed_size + 128
        compressed_data_ends_at == IF wanted > Len(file) THEN Len(file) ELSE wanted
        compressed_data == PackGet(file, starts_at, compressed_data_ends_at)
        inflated == Inflate(compressed_data.val, decompressed_size)
    IN IF compressed_data.tag = "None" THEN Err
       ELSE IF inflated.tag = "Err" THEN Err
       ELSE IF Len(inflated.val) # decompressed_size THEN Err
       ELSE Ok(inflated.val)

\* PackFile::resolve_simple_object
resolve_simple_object(file, decompressed_size, starts_at, unparsed_type) ==
    LET data == get_decompressed_data_from_index(file, decompressed_size, starts_at)
    IN IF data.tag = "Err" THEN Err
       ELSE Ok([object_type |-> unparsed_type, payload |-> data.val])

\* the end of resolve_ofs_delta_object and of get_packed_object_packfile_loaded:
\* strip the two sizes off the delta and patch the base with the rest
PatchBase(base_object, this_object_data) ==
    LET base_size == find_encoded_length(this_object_data)
        after_base_size == SubSeq(this_object_data, base_size.val.num_read + 1, Len(this_object_data))
        our_size == find_encoded_length(after_base_size)
        delta == SubSeq(after_base_size, our_size.val.num_read + 1, Len(after_base_size))
        Out(data_out) ==
            IF data_out.tag # "Ok" THEN [tag |-> data_out.tag]
            ELSE Ok([object_type |-> base_object.object_type, payload |-> data_out.val])
    IN IF base_size.tag = "Panic" THEN Panic
       ELSE IF base_size.tag = "None" THEN Err
       ELSE IF our_size.tag = "Panic" THEN Panic
       ELSE IF our_size.tag = "None" THEN Err
       ELSE Out(apply_delta(base_object.payload, delta, our_size.val.value))

\* how deep the resolvers may recurse before the stack is exhausted
MaxCallDepth == 4

RECURSIVE resolve_unparsed_object(_, _, _, _, _)
\* PackFile::resolve_ofs_delta_object
resolve_ofs_delta_object(file, decompressed_size, starts_at, base_starts_at, depth) ==
    LET OnBase(unparsed_object, this_object_data) ==
            IF unparsed_object.tag # "Ok" THEN unparsed_object
            ELSE IF this_object_data.tag = "Err" THEN Err
            ELSE PatchBase(unparsed_object.val, this_object_data.val)
        Base(next) ==
            IF next.tag = "Err" THEN Err
            ELSE OnBase(resolve_unparsed_object(file, next.val.length, next.val.starts_at,
                                                next.val.obj_type, depth + 1),
                        get_decompressed_data_from_index(file, decompressed_size, starts_at))
    IN Base(get_object_type_and_len_at_index(file, base_starts_at))

\* PackFile::resolve_unparsed_object: follows offset deltas, not reference deltas
resolve_unparsed_object(file, decompressed_size, starts_at, object_type, depth) ==
    IF depth > MaxCallDepth THEN Overflow
    ELSE IF object_type.kind \in SimpleTypes
    THEN resolve_simple_object(file, decompressed_size, starts_at, into_unparsed_type(object_type.kind))
    ELSE IF object_type.kind = "OfsDelta"
    THEN resolve_ofs_delta_object(file, decompressed_size, starts_at, object_type.base_starts_at, depth)
    ELSE Err

\* open_pack_file(path, id)
open_pack_file(r, id) ==
    IF id \notin DOMAIN r.pack THEN Err
    ELSE LET mmapped == r.pack[id]
         IN IF Len(mmapped) < MINIMAL_PACK_FILE_SIZE THEN Err
            ELSE IF SubSeq(mmapped, 1, 4) # PACK_SIGNATURE THEN Err
            ELSE IF ReadU32(SubSeq(mmapped, 5, 8)) \notin ACCEPTABLE_VERSION_NUMBERS THEN Err
            ELSE Ok(mmapped)

\* IDXFileLight::find_oid_and_fanout_index(oid): the fanout index of a
\* stored oid; it is an error if the oid is not in this index
find_oid_and_fanout_index(f, oid) ==
    IF \E j \in 1..NumDigests(f) : full_oid_to_u128_oid(f.digests[j]) = oid
    THEN Ok((CHOOSE j \in 1..NumDigests(f) : full_oid_to_u128_oid(f.digests[j]) = oid) - 1)
    ELSE Err

RECURSIVE get_packed_object_packfile_loaded(_, _, _, _)
\* LightObjectDB::get_packed_object_from_oid(oid, pack_file, idx_id, state)
get_packed_object_from_oid(r, oid, file, idx_id, depth) ==
    LET Located(oid_index, pack_index) ==
            IF pack_index.tag = "None" THEN Err
            ELSE get_packed_object_packfile_loaded(
                     r, [id |-> idx_id, object_starts_at |-> pack_index.val, oid_index |-> oid_index],
                     file, depth + 1)
        Found(idx_file, oid_index) ==
            IF oid_index.tag = "Err" THEN Err
            ELSE Located(oid_index.val,
                         find_packfile_index_from_fanout_index(idx_file, oid_index.val))
        Opened(idx_file) ==
            IF idx_file.tag = "Err" THEN Err
            ELSE Found(idx_file.val, find_oid_and_fanout_index(idx_file.val, oid))
    IN Opened(get_idx_file(r, idx_id))

\* LightObjectDB::get_packed_object_packfile_loaded(packed_info, pack, state)
get_packed_object_packfile_loaded(r, packed_info, file, depth) ==
    LET starts == packed_info.object_starts_at
        obj_index == ReadU32(SubSeq(starts, 5, 8))
        \* the entry is a reference delta: its data on the base from the index
        OnBase(unparsed_object, this_object_data) ==
            IF unparsed_object.tag # "Ok" THEN unparsed_object
            ELSE IF this_object_data.tag = "Err" THEN Err
            ELSE PatchBase(unparsed_object.val, this_object_data.val)
        Entry(h) ==
            IF h.obj_type.kind # "RefDelta"
            THEN resolve_unparsed_object(file, h.length, h.starts_at, h.obj_type, depth)
            ELSE OnBase(get_packed_object_from_oid(r, full_oid_to_u128_oid(h.obj_type.id),
                                                   file, packed_info.id, depth),
                        get_decompressed_data_from_index(file, h.length, h.starts_at))
        Parsed(header) == IF header.tag = "Err" THEN Err ELSE Entry(header.val)
    IN IF depth > MaxCallDepth THEN Overflow
       \* an offset of 2^32 or more lies past the end of any file of the model
       ELSE IF SubSeq(starts, 1, 4) # <<0, 0, 0, 0>> THEN Err
       ELSE Parsed(get_object_type_and_len_at_index(file, obj_index))

\* LightObjectDB::get_packed_object(packed_info, state)
get_packed_object(r, packed_info) ==
    LET pack == open_pack_file(r, packed_info.id)
    IN IF pack.tag = "Err" THEN Err
       ELSE get_packed_object_packfile_loaded(r, packed_info, pack.val, 0)

\* ---- the packs of the model, as git writes them

\* the entry header: the type and the low four bits of the size, then the
\* rest of the size seven bits at a time
MakeHeader(tag, size) ==
    IF size < 16 THEN <<tag * 16 + size>>
    ELSE <<128 + tag * 16 + (size % 16), size \div 16>>
TagOf(type) ==
    IF type = "commit" THEN 1 ELSE IF type = "tree" THEN 2 ELSE IF type = "blob" THEN 3 ELSE 4
PlainEntry(type, payload) == [tag |-> TagOf(type), extra |-> <<>>, stream |-> payload]
OfsEntry(distance, stream) == [tag |-> 6, extra |-> <<distance>>, stream |-> stream]
RefEntry(base, stream) == [tag |-> 7, extra |-> base, stream |-> stream]
\* the body of a delta entry: base size, result size, opcodes
DeltaStream(base_size, result_size, ops) == <<base_size, result_size>> \o ops

EntryBytes(e) == MakeHeader(e.tag, Len(e.stream)) \o e.extra \o Deflate(e.stream)
RECURSIVE EntriesBytes(_)
EntriesBytes(es) == IF es = <<>> THEN <<>> ELSE EntryBytes(Head(es)) \o EntriesBytes(Tail(es))
EntryOffset(es, j) == PACK_HEADER_SIZE + Len(EntriesBytes(SubSeq(es, 1, j - 1)))
PackOf(es, fill) ==
    PACK_SIGNATURE \o <<0, 0, 0, 2>> \o <<0, 0, 0, Len(es)>>
        \o EntriesBytes(es) \o [k \in 1..SHA1_SIZE |-> fill]

\* the index of a pack: where maps each stored digest to its entry's offset
PackIndexOf(where, version, fill) ==
    LET sorted == SortedSeq(DOMAIN where)
    IN [version |-> version,
        digests |-> sorted,
        offsets |-> [j \in 1..Len(sorted) |-> [large |-> FALSE, at |-> where[sorted[j]]]],
        large |-> <<>>,
        crcFill |-> fill,
        trailerFill |-> fill]

\* the opcodes a delta of the model is made of, with the size of the result:
\* copy the first n bytes of the base, insert one byte, or both
DeltaChoices(n) ==
    {[ops |-> <<144, n>>, result_size |-> n],
     [ops |-> <<1, 42>>, result_size |-> 1],
     [ops |-> <<144, 1, 1, 42>>, result_size |-> 2]}

\* the entries that store an object: whole, or as an offset delta on a
\* longer object written just before it
StoredAs(form, type, payload) ==
    LET root == PlainEntry(type, Append(payload, 9))
    IN IF form = "plain" THEN <<PlainEntry(type, payload)>>
       ELSE <<root, OfsEntry(Len(EntryBytes(root)),
                             DeltaStream(Len(payload) + 1, Len(payload), <<144, Len(payload)>>))>>

\* a pack and its index from its entries and the digests they are stored under
PackFrom(es, ids, version, fill) ==
    [idx |-> PackIndexOf([d \in SeqRange(ids) |->
                             EntryOffset(es, CHOOSE j \in 1..Len(ids) : ids[j] = d)], version, fill),
     pack |-> PackOf(es, fill)]

\* an object directory holding a delta object (the target) and its base:
\* the target is in pack 1; the base is in pack 1 before or after it, in
\* pack 2, loose, or nowhere
Scene(target, base, root, place, baseForm, targetForm, baseAfter, type, payload, delta, version, fill) ==
    LET baseEntries == StoredAs(baseForm, type, payload)
        baseIds == IF baseForm = "plain" THEN <<base>> ELSE <<root, base>>
        stream == DeltaStream(Len(payload), delta.result_size, delta.ops)
        \* "ofs_self" and "ref_self": a delta whose base is the entry itself
        targetEntry == IF targetForm = "ofs"
                       THEN OfsEntry(Len(EntryBytes(baseEntries[Len(baseEntries)])), stream)
                       ELSE IF targetForm = "ofs_self" THEN OfsEntry(0, stream)
                       ELSE IF targetForm = "ref_self" THEN RefEntry(target, stream)
                       ELSE RefEntry(base, stream)
        own == IF place # "own" THEN [es |-> <<targetEntry>>, ids |-> <<target>>]
               ELSE IF baseAfter THEN [es |-> <<targetEntry>> \o baseEntries, ids |-> <<target>> \o baseIds]
               ELSE [es |-> Append(baseEntries, targetEntry), ids |-> Append(baseIds, target)]
        p1 == PackFrom(own.es, own.ids, version, fill)
        p2 == PackFrom(baseEntries, baseIds, version, fill)
    IN [repo |-> [idx |-> IF place = "other" THEN <<p1.idx, p2.idx>> ELSE <<p1.idx>>,
                  pack |-> IF place = "other" THEN <<p1.pack, p2.pack>> ELSE <<p1.pack>>,
                  loose |-> IF place = "loose"
                            THEN {[id |-> base, object_type |-> type, payload |-> payload]}
                            ELSE {}],
        scene |-> [target |-> target, base |-> base, targetForm |-> targetForm,
                   base_type |-> type, base_payload |-> payload,
                   ops |-> delta.ops, result_size |-> delta.result_size]]

---------------------------------------------------------------------------
(* Specification of the identifier algebra                                 *)

InitOidVars ==
    /\ hash \in HashInputs
    /\ build \in {"debug", "release"}
    /\ cand \in OidUniverse
    /\ partial = None
    /\ matched = None

\* let p = PartialOid::from_hash(hash)
FromHash ==
    /\ partial = None
    /\ partial' = from_hash(hash, build)
    /\ UNCHANGED <<hash, build, cand, matched, exceptOid>>

\* p.matches(cand)
Matches ==
    /\ partial.tag = "Ok"
    /\ matched = None
    /\ matched' = PartialMatches(partial.val, cand, build)
    /\ UNCHANGED <<hash, build, cand, partial, exceptOid>>

\* the index reader before any index is opened
NoIdx == [version |-> "none"]
IdxIdle ==
    /\ idx = NoIdx
    /\ idxArg = None
    /\ idxOp = "none"
    /\ idxRet = None
    /\ idxWalk = NoWalk
    /\ looseMap = {}

\* the facade before any database is opened
NoFs == [loose |-> <<>>, packDir |-> FALSE, idx |-> <<>>]
DbIdle ==
    /\ fs = NoFs
    /\ dbOp = "none"
    /\ dbArg = None
    /\ dbRet = None
    /\ dbHits = {}
OidIdle ==
    /\ hash = <<>>
    /\ partial = None
    /\ cand = ZeroOid
    /\ matched = None

\* the patcher before any delta is applied
DeltaIdle ==
    /\ base_data = <<>>
    /\ delta_data = <<>>
    /\ output_len = 0
    /\ deltaRet = None

\* the loose object reader before any file is read
NoFile == [otype |-> "none", declared |-> 0, payload |-> <<>>]
ObjIdle ==
    /\ objFile = NoFile
    /\ should_read_blobs = FALSE
    /\ objRet = None

\* the pack resolver before any directory is given
NoRepo == [idx |-> <<>>, pack |-> <<>>, loose |-> {}]
PackIdle ==
    /\ repo = NoRepo
    /\ scene = None
    /\ packArg = None
    /\ packRet = None

\* a State before it is created on a directory
NoCall == [op |-> "none"]
StIdle ==
    /\ disk = NoFs
    /\ loose_map = <<>>
    /\ known_packs = <<>>
    /\ visited = {}
    /\ stCall = NoCall

\* the header parser before any pack file is mapped
HdrIdle ==
    /\ hdrFile = <<>>
    /\ hdrIndex = 0
    /\ hdrRet = None

\* before any State or LightObjectDB is created
PathIdle ==
    /\ path = <<>>
    /\ ctor = "none"
    /\ sep = 0
    /\ created = None
    /\ static_path = None

\* before any hex string is parsed
ParseIdle ==
    /\ hex = <<>>
    /\ parseOp = "none"
    /\ parseRet = None

\* before any commit is parsed
CommitIdle ==
    /\ raw = <<>>
    /\ commitOp = "none"
    /\ commitRet = None
    /\ ppCall = NoCall

\* before any tree is parsed
TreeIdle ==
    /\ treeRaw = <<>>
    /\ treeRet = None

\* before any OidMap is created
MapIdle ==
    /\ tables_root = <<>>
    /\ inserts = <<>>
    /\ mapRet = NoCall

\* a SearchedPack before any pack is opened
SpIdle ==
    /\ spFile = NoIdx
    /\ continue_from = None
    /\ fully_searched = FALSE
    /\ known_oids = {}
    /\ spCall = NoCall
    /\ lookups = 0

InitOid ==
    /\ InitOidVars /\ IdxIdle /\ DbIdle /\ DeltaIdle /\ ObjIdle /\ PackIdle /\ StIdle
    /\ HdrIdle /\ PathIdle /\ ParseIdle
    /\ CommitIdle
    /\ TreeIdle
    /\ MapIdle
    /\ SpIdle
NextOid == FromHash \/ Matches
SpecOid == InitOid /\ [][NextOid]_vars

---------------------------------------------------------------------------
(* Specification of the pack index reader and of partial id resolution     *)

InitIdx ==
    /\ build \in {"debug", "release"}
    /\ \E S \in ObjectSets, fill \in FillBytes :
          /\ \/ idx = IndexOf(S, "V1", fill)
             \/ \E L \in LargePositions(Cardinality(S)) : idx = IndexWithLarge(S, fill, L)
          /\ looseMap = {full_oid_to_u128_oid(d) : d \in S}
    /\ idxArg = None
    /\ idxOp = "none"
    /\ idxRet = None
    /\ idxWalk = NoWalk
    /\ OidIdle
    /\ DbIdle
    /\ DeltaIdle
    /\ ObjIdle
    /\ PackIdle
    /\ StIdle
    /\ HdrIdle
    /\ PathIdle
    /\ ParseIdle
    /\ CommitIdle
    /\ TreeIdle
    /\ MapIdle
    /\ SpIdle

\* idx.find_index_for(oid)
FindIndexFor ==
    /\ idxOp = "none"
    /\ \E oid \in OidUniverse :
          /\ idxArg' = oid
          /\ idxRet' = find_index_for(idx, oid)
    /\ idxOp' = "find_index_for"
    /\ UNCHANGED <<idx, idxWalk, looseMap, exceptIdx>>

\* idx.try_find_match_from_partial(p) on an IDXFile
TryFindMatchFromPartial ==
    /\ idxOp = "none"
    /\ \E p \in BuiltPartials(build) :
          /\ idxArg' = p
          /\ idxRet' = try_find_match_from_partial(idx, p, build)
    /\ idxOp' = "try_find_match_from_partial"
    /\ UNCHANGED <<idx, idxWalk, looseMap, exceptIdx>>

\* map.try_find_match_from_partial(p.oid) on a PartiallyResolvedLooseMap
LooseTryFindMatchFromPartial ==
    /\ idxOp = "none"
    /\ \E p \in BuiltPartials(build) :
          /\ idxArg' = p
          /\ idxRet' \in loose_try_find_match_from_partial(looseMap, p.oid)
    /\ idxOp' = "loose_try_find_match_from_partial"
    /\ UNCHANGED <<idx, idxWalk, looseMap, exceptIdx>>

\* idx.get_partial_matches_with_locations(Some(first byte of p), p, cb) on an
\* IDXFileLight, with a callback that never asks to stop
GetPartialMatchesWithLocations ==
    /\ idxOp = "none"
    /\ \E p \in BuiltPartials(build) :
          /\ idxArg' = p
          /\ idxWalk' = walk_partial(idx, p, build, "locations")
    /\ idxOp' = "get_partial_matches_with_locations"
    /\ UNCHANGED <<idx, idxRet, looseMap, exceptIdx>>

\* idx.find_packfile_index_from_fanout_index(fanout_index) on an IDXFileLight
FindPackfileIndexFromFanoutIndex ==
    /\ idxOp = "none"
    /\ \E fanout_index \in 0..MaxObjects :
          /\ idxArg' = fanout_index
          /\ idxRet' = find_packfile_index_from_fanout_index(idx, fanout_index)
    /\ idxOp' = "find_packfile_index_from_fanout_index"
    /\ UNCHANGED <<idx, idxWalk, looseMap, exceptIdx>>

\* the start bytes given to the walker, and the call on which the callback
\* asks to stop (0: on none)
StartBytes == {None} \cup {Some(b) : b \in {0, 1, 127, 128, 255}}
StopCalls == 0..(MaxObjects + 1)

\* idx.walk_all_oids_with_index_and_from(start_byte, cb) on an IDXFileLight
WalkAllOidsWithIndexAndFrom ==
    /\ idxOp = "none"
    /\ \E start_byte \in StartBytes, stops_at \in StopCalls :
          /\ idxArg' = [start_byte |-> start_byte, stops_at |-> stops_at]
          /\ idxWalk' = walk_all_oids_with_index_and_from(idx, start_byte, stops_at)
    /\ idxOp' = "walk_all_oids_with_index_and_from"
    /\ UNCHANGED <<idx, idxRet, looseMap, exceptIdx>>

NextIdx ==
    \/ FindPackfileIndexFromFanoutIndex
    \/ WalkAllOidsWithIndexAndFrom
    \/ FindIndexFor
    \/ TryFindMatchFromPartial
    \/ LooseTryFindMatchFromPartial
    \/ GetPartialMatchesWithLocations
SpecIdx == InitIdx /\ [][NextIdx]_vars

---------------------------------------------------------------------------
(* Specification of the database facade over a MinState                    *)

InitDb ==
    /\ build \in {"debug", "release"}
    /\ \E S \in {T \in SUBSET DigestUniverse : Cardinality(T) <= MaxDbObjects} :
       \E place \in [S -> 0..MaxPacks], version \in {"V1", "V2"}, fill \in FillBytes,
          keptFolders \in BOOLEAN, packDir \in BOOLEAN :
          \* packs are numbered from 1 without gaps and live in the pack directory
          /\ \A k \in 2..MaxPacks : (\E d \in S : place[d] = k) => (\E d \in S : place[d] = k - 1)
          /\ (\E d \in S : place[d] > 0) => packDir
          /\ fs = ObjectsDir(S, place, version, fill, keptFolders, packDir)
    /\ dbOp = "none"
    /\ dbArg = None
    /\ dbRet = None
    /\ dbHits = {}
    /\ OidIdle
    /\ IdxIdle
    /\ DeltaIdle
    /\ ObjIdle
    /\ PackIdle
    /\ StIdle
    /\ HdrIdle
    /\ PathIdle
    /\ ParseIdle
    /\ CommitIdle
    /\ TreeIdle
    /\ MapIdle
    /\ SpIdle

\* what the callback has received when the call returns: everything the
\* enumeration hands on, or, when it panicked part-way, any part of it
Received(out) == IF out.ret.tag = "Ok" THEN {out.hits} ELSE SUBSET out.hits

\* the call returns, its callback having received what Received allows
Returns(out) ==
    /\ dbRet' = out.ret
    /\ dbHits' \in Received(out)

\* odb.find_matching_oids(p, &mut state, cb)
FindMatchingOids ==
    /\ dbOp = "none"
    /\ \E p \in BuiltPartials(build) :
          /\ dbArg' = p
          /\ Returns(find_matching_oids(fs, p, build))
    /\ dbOp' = "find_matching_oids"
    /\ UNCHANGED <<fs, exceptDb>>

\* state.iter_loose_folder(folder_byte, cb)
IterLooseFolder ==
    /\ dbOp = "none"
    /\ \E folder_byte \in FirstBytes :
          /\ dbArg' = folder_byte
          /\ Returns(iter_loose_folder(fs, folder_byte))
    /\ dbOp' = "iter_loose_folder"
    /\ UNCHANGED <<fs, exceptDb>>

\* state.iter_known_packs(cb)
IterKnownPacks ==
    /\ dbOp = "none"
    /\ Returns(iter_known_packs(fs))
    /\ dbArg' = None
    /\ dbOp' = "iter_known_packs"
    /\ UNCHANGED <<fs, exceptDb>>

\* odb.iter_all_known_objects(cb)
IterAllKnownObjects ==
    /\ dbOp = "none"
    /\ Returns(iter_all_known_objects(fs))
    /\ dbArg' = None
    /\ dbOp' = "iter_all_known_objects"
    /\ UNCHANGED <<fs, exceptDb>>

\* odb.find_first_matching_oid_with_location(p, &mut state): dbRet holds
\* its result and the pack indexes it opened, dbHits what its callback got
FindFirstMatchingOid ==
    /\ dbOp = "none"
    /\ \E p \in BuiltPartials(build) :
       \E loose_order \in Orders(EntriesOf(LooseFolder(fs, get_first_byte_of_oid(p.oid)))),
          pack_order \in Orders(DOMAIN fs.idx) :
          /\ dbArg' = [partial |-> p, pack_order |-> pack_order]
          /\ dbRet' = find_first_matching_oid_with_location(fs, p, build, loose_order, pack_order)
          /\ dbHits' = IF dbRet'.ret.tag = "Ok" THEN {dbRet'.ret.val} ELSE {}
    /\ dbOp' = "find_first_matching_oid_with_location"
    /\ UNCHANGED <<fs, exceptDb>>

NextDb ==
    \/ FindFirstMatchingOid
    \/ FindMatchingOids
    \/ IterLooseFolder
    \/ IterKnownPacks
    \/ IterAllKnownObjects
SpecDb == InitDb /\ [][NextDb]_vars

---------------------------------------------------------------------------
(* Specification of the delta patcher                                      *)

InitDelta ==
    /\ base_data \in {BasePayload(n) : n \in 0..MaxBaseLen}
    /\ delta_data \in SeqsUpTo(DeltaBytes, MaxDeltaLen)
    /\ output_len \in 0..MaxOutputLen
    /\ deltaRet = None
    /\ build = "release"
    /\ OidIdle
    /\ IdxIdle
    /\ DbIdle
    /\ ObjIdle
    /\ PackIdle
    /\ StIdle
    /\ HdrIdle
    /\ PathIdle
    /\ ParseIdle
    /\ CommitIdle
    /\ TreeIdle
    /\ MapIdle
    /\ SpIdle

\* apply_delta(&base_data, delta_data, output_len)
ApplyDelta ==
    /\ deltaRet = None
    /\ deltaRet' = apply_delta(base_data, delta_data, output_len)
    /\ UNCHANGED <<base_data, delta_data, output_len, exceptDelta>>

NextDelta == ApplyDelta
SpecDelta == InitDelta /\ [][NextDelta]_vars

---------------------------------------------------------------------------
(* Specification of the loose object reader                                *)

InitObj ==
    /\ objFile \in {[otype |-> t, declared |-> n + cut, payload |-> Payload(n, seed)] :
                        t \in {"commit", "tree", "blob", "tag"},
                        n \in 0..MaxPayloadLen, seed \in PayloadSeeds, cut \in CutLens}
    \* a stream is cut short only past the 128 bytes of the first read
    /\ objFile.declared > Len(objFile.payload) => Len(ObjectStream(objFile)) > HEADER_BUF_LEN
    /\ should_read_blobs \in BOOLEAN
    /\ objRet = None
    /\ build = "release"
    /\ OidIdle
    /\ IdxIdle
    /\ DbIdle
    /\ DeltaIdle
    /\ PackIdle
    /\ StIdle
    /\ HdrIdle
    /\ PathIdle
    /\ ParseIdle
    /\ CommitIdle
    /\ TreeIdle
    /\ MapIdle
    /\ SpIdle

\* read_raw_object(path, should_read_blobs)
ReadRawObject ==
    /\ objRet = None
    /\ objRet' = read_raw_object(objFile, should_read_blobs)
    /\ UNCHANGED <<objFile, should_read_blobs, exceptObj>>

NextObj == ReadRawObject
SpecObj == InitObj /\ [][NextObj]_vars

---------------------------------------------------------------------------
(* Specification of the pack resolver                                      *)

InitPack ==
    /\ \E target \in DigestUniverse, base \in DigestUniverse,
          place \in {"own", "other", "loose", "nowhere"},
          baseForm \in {"plain", "ofs"}, targetForm \in {"ref", "ofs", "ofs_self", "ref_self"},
          baseAfter \in BOOLEAN,
          type \in {"blob", "tree"}, n \in 1..MaxBaseLen,
          version \in {"V1", "V2"}, fill \in FillBytes :
       \E delta \in DeltaChoices(n) :
          LET root == CHOOSE d \in DigestUniverse : d \notin {target, base}
              made == Scene(target, base, root, place, baseForm, targetForm, baseAfter,
                            type, BasePayload(n), delta, version, fill)
          IN /\ target # base
             \* an offset delta points back into its own pack
             /\ targetForm = "ofs" => (place = "own" /\ ~baseAfter)
             /\ baseAfter => (place = "own" /\ targetForm = "ref")
             \* an entry that is its own base: what precedes it plays no part
             /\ targetForm \in {"ofs_self", "ref_self"} => (baseForm = "plain" /\ place \in {"own", "nowhere"})
             /\ repo = made.repo
             /\ scene = made.scene
    /\ packArg = None
    /\ packRet = None
    /\ build = "release"
    /\ OidIdle
    /\ IdxIdle
    /\ DbIdle
    /\ DeltaIdle
    /\ ObjIdle
    /\ StIdle
    /\ HdrIdle
    /\ PathIdle
    /\ ParseIdle
    /\ CommitIdle
    /\ TreeIdle
    /\ MapIdle
    /\ SpIdle

\* get_packed_object(&FoundPackedLocation, state) for an object an index of
\* the directory lists
GetPackedObject ==
    /\ packRet = None
    /\ \E id \in DOMAIN repo.idx :
       \E oid_index \in 0..(num_objects(repo.idx[id]) - 1) :
          LET location == [id |-> id,
                           object_starts_at |->
                               find_packfile_index_from_fanout_index(repo.idx[id], oid_index).val,
                           oid_index |-> oid_index]
          IN /\ packArg' = Some(location)
             /\ packRet' = get_packed_object(repo, location)
    /\ UNCHANGED <<repo, scene, exceptPack>>

NextPack == GetPackedObject
SpecPack == InitPack /\ [][NextPack]_vars

---------------------------------------------------------------------------
(* SlightlyBetterState: state.rs                                           *)

\* the loop of search_folder_out as its closure sees it: read_dir fails on
\* a missing directory, and `entry?` can fail after any number of entries
ReadDir(dir, order, fault) ==
    IF dir.tag = "Missing" THEN [ret |-> Err, seen |-> <<>>]
    ELSE IF fault.tag = "Some" THEN [ret |-> Err, seen |-> SubSeq(order, 1, fault.val)]
    ELSE [ret |-> Ok(<<>>), seen |-> order]

\* what a callback receives that answers true at its stop_at-th call, when
\* the caller stops calling it from then on
Given(q, stop_at) ==
    IF stop_at.tag = "Some" THEN SubSeq(q, 1, Min(stop_at.val, Len(q))) ELSE q

\* hash_object_file_and_folder_full: the 40 hex characters as an OidFull
hash_object_file_and_folder_full(folder, filename) == from_str_radix(folder \o filename)

\* what one call on the State did
Called(ret, readdir, given, cache) ==
    [ret |-> ret, readdir |-> readdir, given |-> given, cache |-> cache]

\* iter_loose_folder_from_map: the BTreeMap iterates in key order
iter_loose_folder_from_map(map, stop_at) ==
    Called(Ok(<<>>), FALSE, Given(SortedSeq(DOMAIN map), stop_at), map)

\* iter_packs_from_known
iter_packs_from_known(known, stop_at) ==
    Called(Ok(<<>>), FALSE, Given(known, stop_at), known)

\* SlightlyBetterState::iter_loose_folder: a non-empty map serves the call;
\* otherwise the fallback reads the folder to its end, every entry that
\* parses is inserted, and the map is stored whatever the fallback returned
SlightlyBetterState_iter_loose_folder(d, map, folder_byte, order, fault, stop_at) ==
    LET hex_key == HEX_BYTES(folder_byte)
        Insert(listing) ==
            LET Parse(k) == hash_object_file_and_folder(hex_key, listing.seen[k])
                parsed == {k \in 1..Len(listing.seen) : Parse(k).tag = "Ok"}
                Nth(n) == CHOOSE k \in parsed : Cardinality({j \in parsed : j < k}) = n - 1
                oids == [n \in 1..Cardinality(parsed) |-> Parse(Nth(n)).val]
                Last(oid) == CHOOSE k \in parsed :
                                /\ Parse(k).val = oid
                                /\ \A j \in parsed : j > k => Parse(j).val # oid
            IN IF \E k \in 1..Len(listing.seen) : Parse(k).tag = "Panic"
               THEN Called(Panic, TRUE, <<>>, map)
               ELSE Called(listing.ret, TRUE, Given(oids, stop_at),
                           [oid \in SeqRange(oids) |->
                               hash_object_file_and_folder_full(hex_key, listing.seen[Last(oid)]).val])
    IN IF DOMAIN map # {}
       THEN iter_loose_folder_from_map(map, stop_at)
       ELSE Insert(ReadDir(LooseFolder(d, folder_byte), order, fault))

\* SlightlyBetterState::iter_known_packs: a non-empty vector serves the
\* call; otherwise the closure pushes the id of each *.idx entry and calls
\* the callback, and returns at once for every entry after the callback
\* asked to stop
SlightlyBetterState_iter_known_packs(d, known, order, fault, stop_at) ==
    LET Push(listing) ==
            LET found == {k \in 1..Len(listing.seen) : listing.seen[k].ext = "idx"}
                Nth(n) == CHOOSE k \in found : Cardinality({j \in found : j < k}) = n - 1
                ids == [n \in 1..Cardinality(found) |-> parse_pack_or_idx_id(listing.seen[Nth(n)]).val]
                Pushed(reached) == Called(listing.ret, TRUE, reached, reached)
            IN Pushed(Given(ids, stop_at))
    IN IF known # <<>>
       THEN iter_packs_from_known(known, stop_at)
       ELSE Push(ReadDir(PackFolder(d), order, fault))

---------------------------------------------------------------------------
(* Specification of a SlightlyBetterState over an objects directory        *)

\* default_loose_map(): 256 empty maps
default_loose_map == [b \in 0..255 |-> <<>>]

\* the faults a read of n entries can meet; the callbacks of the model never
\* ask to stop, or ask at their first call
Faults(n) == {None} \cup {Some(k) : k \in 0..n}
Callbacks == {None, Some(1)}
\* most calls made on one State
MaxCalls == 3

\* SlightlyBetterState::new on an objects directory
InitState ==
    /\ \E S \in {T \in SUBSET DigestUniverse : Cardinality(T) <= MaxDbObjects} :
       \E place \in [S -> 0..MaxPacks], keptFolders \in BOOLEAN, packDir \in BOOLEAN :
          /\ \A k \in 2..MaxPacks : (\E d \in S : place[d] = k) => (\E d \in S : place[d] = k - 1)
          /\ (\E d \in S : place[d] > 0) => packDir
          /\ disk = ObjectsDir(S, place, "V2", 0, keptFolders, packDir)
    /\ loose_map = default_loose_map
    /\ known_packs = <<>>
    /\ visited = [loose |-> {}, pack |-> FALSE, calls |-> 0]
    /\ stCall = NoCall
    /\ build = "release"
    /\ OidIdle
    /\ IdxIdle
    /\ DbIdle
    /\ DeltaIdle
    /\ ObjIdle
    /\ PackIdle
    /\ HdrIdle
    /\ PathIdle
    /\ ParseIdle
    /\ CommitIdle
    /\ TreeIdle
    /\ MapIdle
    /\ SpIdle

\* the call returns: its record, and the cache it leaves
LooseReturns(folder_byte, stop_at, out) ==
    /\ stCall' = [op |-> "iter_loose_folder", arg |-> Some(folder_byte), stop_at |-> stop_at,
                  ret |-> out.ret, readdir |-> out.readdir, given |-> out.given]
    /\ loose_map' = [loose_map EXCEPT ![folder_byte] = out.cache]
PacksReturn(stop_at, out) ==
    /\ stCall' = [op |-> "iter_known_packs", arg |-> None, stop_at |-> stop_at,
                  ret |-> out.ret, readdir |-> out.readdir, given |-> out.given]
    /\ known_packs' = out.cache

\* state.iter_loose_folder(folder_byte, cb)
StateIterLooseFolder ==
    /\ visited.calls < MaxCalls
    /\ \E folder_byte \in FirstBytes, stop_at \in Callbacks :
       \E order \in Orders(EntriesOf(LooseFolder(disk, folder_byte))) :
       \E fault \in Faults(Len(order)) :
          /\ LooseReturns(folder_byte, stop_at,
                SlightlyBetterState_iter_loose_folder(disk, loose_map[folder_byte], folder_byte,
                                                      order, fault, stop_at))
          /\ visited' = [visited EXCEPT !.loose = @ \cup {folder_byte}, !.calls = @ + 1]
    /\ UNCHANGED <<disk, known_packs, exceptSt>>

\* state.iter_known_packs(cb)
StateIterKnownPacks ==
    /\ visited.calls < MaxCalls
    /\ \E stop_at \in Callbacks :
       \E order \in Orders(EntriesOf(PackFolder(disk))) :
       \E fault \in Faults(Len(order)) :
          PacksReturn(stop_at,
              SlightlyBetterState_iter_known_packs(disk, known_packs, order, fault, stop_at))
    /\ visited' = [visited EXCEPT !.pack = TRUE, !.calls = @ + 1]
    /\ UNCHANGED <<disk, loose_map, exceptSt>>

NextState == StateIterLooseFolder \/ StateIterKnownPacks
SpecState == InitState /\ [][NextState]_vars

---------------------------------------------------------------------------
(* The searches of LightObjectDB over a SlightlyBetterState: mod.rs        *)

\* what one search did: its result, what its callback received, and the
\* caches it leaves in the State
Searched(ret, hits, map, known) == [ret |-> ret, hits |-> hits, map |-> map, known |-> known]

\* LightObjectDB::find_matching_oids(p, &mut SlightlyBetterState, cb): the
\* loose folder of p's first byte, then every known pack, each under `?`
SlightlyBetterState_find_matching_oids(d, map, known, p, b, loose_order, pack_order) ==
    LET Walk(file) == IF file.tag = "Ok" THEN walk_partial(file.val, p, b, "oids") ELSE NoWalk
        Gathered(loose_hits, new_map, new_known, walk) ==
            Searched(IF \E id \in DOMAIN walk : walk[id].panicked THEN Panic ELSE Ok(<<>>),
                     loose_hits \cup UNION {SeqRange(walk[id].hits) : id \in DOMAIN walk},
                     new_map, new_known)
        Packed(loose_hits, new_map, packs) ==
            IF packs.ret.tag # "Ok" THEN Searched(packs.ret, loose_hits, new_map, packs.cache)
            ELSE Gathered(loose_hits, new_map, packs.cache,
                          [id \in SeqRange(packs.given) |-> Walk(get_idx_file(d, id))])
        Matched(loose, m) ==
            IF \E oid \in DOMAIN m : m[oid].tag = "Panic" THEN Searched(Panic, {}, map, known)
            ELSE IF loose.ret.tag # "Ok" THEN Searched(loose.ret, {}, loose.cache, known)
            ELSE Packed({oid \in DOMAIN m : m[oid] = Ok(TRUE)}, loose.cache,
                        SlightlyBetterState_iter_known_packs(d, known, pack_order, None, None))
        Loose(loose) ==
            Matched(loose, [oid \in SeqRange(loose.given) |-> PartialMatches(p, oid, b)])
    IN Loose(SlightlyBetterState_iter_loose_folder(d, map, get_first_byte_of_oid(p.oid),
                                                   loose_order, None, None))

\* LightObjectDB::find_first_matching_oid_with_location(p, &mut
\* SlightlyBetterState): the callback answers true at the first match, of
\* the loose folder, then of the packs in the order the State hands them on
SlightlyBetterState_find_first_matching_oid_with_location(d, map, known, p, b, loose_order, pack_order) ==
    LET Walk(file) == IF file.tag = "Ok" THEN walk_partial(file.val, p, b, "first") ELSE NoWalk
        First(ends) == CHOOSE k \in ends : \A j \in ends : k <= j
        \* the walk that ended the search, and what the State keeps of the
        \* pack directory when its callback answers true at that pack
        Stopped(new_map, walk, out) ==
            IF walk.panicked THEN Searched(Panic, {}, new_map, out.cache)
            ELSE Searched(Ok(<<>>), {walk.hits[1]}, new_map, out.cache)
        Ended(new_map, packs, walk, ends) ==
            IF ends = {} THEN Searched(Err, {}, new_map, packs.cache)
            ELSE Stopped(new_map, walk[First(ends)],
                         SlightlyBetterState_iter_known_packs(d, known, pack_order, None,
                                                              Some(First(ends))))
        Walked(new_map, packs, walk) ==
            Ended(new_map, packs, walk,
                  {k \in DOMAIN walk : walk[k].stopped \/ walk[k].panicked})
        \* the packs the State hands on to a callback that never stops
        Packed(new_map, packs) ==
            IF packs.ret.tag # "Ok" THEN Searched(packs.ret, {}, new_map, packs.cache)
            ELSE Walked(new_map, packs,
                        [k \in 1..Len(packs.given) |-> Walk(get_idx_file(d, packs.given[k]))])
        Matched(loose, m, ends) ==
            IF loose.ret.tag # "Ok" THEN Searched(loose.ret, {}, loose.cache, known)
            ELSE IF ends = {}
            THEN Packed(loose.cache,
                        SlightlyBetterState_iter_known_packs(d, known, pack_order, None, None))
            ELSE IF m[First(ends)].tag = "Panic" THEN Searched(Panic, {}, map, known)
            ELSE Searched(Ok(<<>>), {loose.given[First(ends)]}, loose.cache, known)
        Tried(loose, m) ==
            Matched(loose, m, {k \in DOMAIN m : m[k].tag = "Panic" \/ m[k] = Ok(TRUE)})
        Loose(loose) ==
            Tried(loose, [k \in 1..Len(loose.given) |-> PartialMatches(p, loose.given[k], b)])
    IN Loose(SlightlyBetterState_iter_loose_folder(d, map, get_first_byte_of_oid(p.oid),
                                                   loose_order, None, None))

---------------------------------------------------------------------------
(* Specification of the searches over one SlightlyBetterState              *)

\* most searches made on one State
MaxSearches == 2

\* the partial ids the searches are given: whole ids and their first byte
SearchPartials ==
    {from_hash(h, "release").val :
        h \in UNION {{SubSeq(HexOf(d), 1, 2), HexOf(full_oid_to_u128_oid(d))} : d \in DigestUniverse}}

\* the orders in which the pack directory is read, as far as its index
\* files go: each pack-<id>.pack entry is read right after its index
RECURSIVE WithPackFiles(_)
WithPackFiles(ids) ==
    IF ids = <<>> THEN <<>>
    ELSE <<[id |-> Head(ids), ext |-> "idx"], [id |-> Head(ids), ext |-> "pack"]>>
             \o WithPackFiles(Tail(ids))
PackOrders(d) == IF d.packDir THEN {WithPackFiles(q) : q \in Orders(DOMAIN d.idx)} ELSE {<<>>}

InitCached ==
    /\ \E S \in {T \in SUBSET DigestUniverse : Cardinality(T) <= MaxDbObjects} :
       \E place \in [S -> 0..MaxPacks], keptFolders \in BOOLEAN, packDir \in BOOLEAN :
          /\ \A k \in 2..MaxPacks : (\E d \in S : place[d] = k) => (\E d \in S : place[d] = k - 1)
          /\ (\E d \in S : place[d] > 0) => packDir
          /\ disk = ObjectsDir(S, place, "V2", 0, keptFolders, packDir)
    /\ loose_map = default_loose_map
    /\ known_packs = <<>>
    /\ visited = [loose |-> {}, pack |-> FALSE, calls |-> 0]
    /\ stCall = NoCall
    /\ build = "release"
    /\ OidIdle
    /\ IdxIdle
    /\ DbIdle
    /\ DeltaIdle
    /\ ObjIdle
    /\ PackIdle
    /\ HdrIdle
    /\ PathIdle
    /\ ParseIdle
    /\ CommitIdle
    /\ TreeIdle
    /\ MapIdle
    /\ SpIdle

\* the search returns: its record, and the caches it leaves
SearchReturns(op, p, out) ==
    /\ stCall' = [op |-> op, arg |-> p, ret |-> out.ret, hits |-> out.hits]
    /\ loose_map' = [loose_map EXCEPT ![get_first_byte_of_oid(p.oid)] = out.map]
    /\ known_packs' = out.known
    /\ visited' = [visited EXCEPT !.calls = @ + 1]
    /\ UNCHANGED <<disk, exceptSt>>

\* odb.find_matching_oids(p, &mut state, cb)
CachedFindMatchingOids ==
    /\ visited.calls < MaxSearches
    /\ \E p \in SearchPartials :
       \E loose_order \in Orders(EntriesOf(LooseFolder(disk, get_first_byte_of_oid(p.oid)))),
          pack_order \in PackOrders(disk) :
          SearchReturns("find_matching_oids", p,
              SlightlyBetterState_find_matching_oids(
                  disk, loose_map[get_first_byte_of_oid(p.oid)], known_packs, p, build,
                  loose_order, pack_order))

\* odb.find_first_matching_oid_with_location(p, &mut state)
CachedFindFirstMatchingOid ==
    /\ visited.calls < MaxSearches
    /\ \E p \in SearchPartials :
       \E loose_order \in Orders(EntriesOf(LooseFolder(disk, get_first_byte_of_oid(p.oid)))),
          pack_order \in PackOrders(disk) :
          SearchReturns("find_first_matching_oid_with_location", p,
              SlightlyBetterState_find_first_matching_oid_with_location(
                  disk, loose_map[get_first_byte_of_oid(p.oid)], known_packs, p, build,
                  loose_order, pack_order))

NextCached == CachedFindMatchingOids \/ CachedFindFirstMatchingOid
SpecCached == InitCached /\ [][NextCached]_vars

---------------------------------------------------------------------------
(* Specification of the entry header parser over the bytes of a pack file  *)

\* most bytes the model writes a size in, and an offset in
MaxSizeLen == 19
MaxOffsetLen == 12
\* n bytes `byte`
Rep(byte, n) == [k \in 1..n |-> byte]

(* What follows the type nibble of an entry: the low four bits of the size  *)
(* and whether the size goes on, then its continuation bytes. Sizes of the  *)
(* model stay below 2^28: only the first four continuation bytes carry      *)
(* bits; a last byte of 128 leaves the size unterminated.                   *)
SizeTails ==
    {<<last>> : last \in {0, 1, 127, 128}}
        \cup {<<c1>> \o Rep(128, n) \o <<last>> :
                 c1 \in {128, 255}, n \in 0..(MaxSizeLen - 3), last \in {0, 128}}
        \cup {<<c1>> \o Rep(128, n) \o <<1>> : c1 \in {128, 255}, n \in 0..2}
SizeBytes(tag, tails) ==
    {<<16 * tag + low>> : low \in {0, 15}}
        \cup {<<128 + 16 * tag + low>> \o tail : low \in {0, 15}, tail \in tails}

\* the offsets of the model: a base a few bytes back, and long encodings
\* whose value passes 2^64
OffsetBytes ==
    {<<last>> : last \in {0, 5, 127, 128}}
        \cup {<<first, last>> : first \in {128, 133, 254}, last \in {0, 5, 128}}
        \cup {<<first>> \o Rep(mid, n) \o <<before_last, last>> :
                 first \in {128, 133, 254}, mid \in {128, 254}, n \in 0..(MaxOffsetLen - 3),
                 before_last \in {254, 255}, last \in {0, 5, 128}}

\* an entry header: type and size, then the base of a delta
EntryHeaders ==
    UNION {SizeBytes(tag, SizeTails) : tag \in 0..5}
        \cup {size \o offset : size \in SizeBytes(6, {<<1>>}), offset \in OffsetBytes}
        \cup {size \o id : size \in SizeBytes(7, {<<1>>}),
                          id \in {d \in DigestUniverse : d[1] = 0} \cup {<<>>}}
\* where the entry starts, and how many bytes follow its header
HeaderIndexes == {0, 5, 200}
TailLens == {0, 40}

InitHeader ==
    /\ build \in {"debug", "release"}
    /\ \E header \in EntryHeaders, index \in HeaderIndexes, tail \in TailLens :
          /\ hdrFile = Rep(0, index) \o header \o Rep(0, tail)
          /\ hdrIndex = index
    /\ hdrRet = None
    /\ OidIdle
    /\ IdxIdle
    /\ DbIdle
    /\ DeltaIdle
    /\ ObjIdle
    /\ PackIdle
    /\ StIdle
    /\ PathIdle
    /\ ParseIdle
    /\ CommitIdle
    /\ TreeIdle
    /\ MapIdle
    /\ SpIdle

\* pack.get_object_type_and_len_at_index(index)
GetObjectTypeAndLenAtIndex ==
    /\ hdrRet = None
    /\ hdrRet' = get_object_type_and_len_at_index(hdrFile, hdrIndex)
    /\ UNCHANGED <<hdrFile, hdrIndex, exceptHdr>>

NextHeader == GetObjectTypeAndLenAtIndex
SpecHeader == InitHeader /\ [][NextHeader]_vars

\* bit j (1 = most significant) of an Oid
BitOf(oid, j) == (oid[(j - 1) \div 8 + 1] \div Pow2(7 - ((j - 1) % 8))) % 2
TopBitsEqual(a, b, k) == \A j \in 1..k : BitOf(a, j) = BitOf(b, j)
\* the number of bits from_hash sets for a hash string
BitsSetOf(h) == Min(Len(h), OID_STR_LEN) * 4

(* C2: for every PartialOid p built by from_hash with bits_set = k and      *)
(* every Oid o, p.matches(o) is true exactly when the top k bits of o equal *)
(* the top k bits of p; so once matches has run on a built partial id, its  *)
(* outcome is the boolean "the top k bits agree".                           *)
C2_MatchesIffTopBitsEqual ==
    (partial.tag = "Ok" /\ matched # None)
        => matched = Ok(TopBitsEqual(cand, partial.val.oid, BitsSetOf(hash)))

---------------------------------------------------------------------------
(* Properties of the pack index reader                                     *)

\* the Oids the index stores, and the bucket of a first byte in its table
StoredOids == {full_oid_to_u128_oid(idx.digests[j]) : j \in 1..NumDigests(idx)}
BucketLo(b) == IF b = 0 THEN 0 ELSE FanoutCount(idx, b - 1)
BucketHi(b) == FanoutCount(idx, b)
\* the stored Oids whose leading bits are those of the partial id p
MatchingStored(p) == {o \in StoredOids : TopBitsEqual(o, p.oid, OID_BITS - p.shift_by)}

(* C3: resolving a partial id classifies by the number of stored objects    *)
(* that match it: none gives not-found, exactly one gives unique with that  *)
(* Oid, two or more give ambiguous with all of them listed.                 *)
C3_ClassifiesByMatchCount ==
    LET n == Cardinality(MatchingStored(idxArg))
    IN /\ idxOp = "try_find_match_from_partial" =>
            \/ n = 0 /\ idxRet = [tag |-> "FoundNone"]
            \/ n = 1 /\ idxRet.tag = "FoundMatch" /\ idxRet.val \in MatchingStored(idxArg)
            \/ n >= 2 /\ idxRet.tag = "FoundMultiple"
                      /\ SeqRange(idxRet.val) = MatchingStored(idxArg)
       /\ idxOp = "loose_try_find_match_from_partial" =>
            \/ n = 0 /\ idxRet = None
            \/ n = 1 /\ idxRet.tag = "Some" /\ idxRet.val \in MatchingStored(idxArg)
            \/ n >= 2 /\ idxRet.tag = "FoundMultiple"
                      /\ SeqRange(idxRet.val) = MatchingStored(idxArg)

(* C4: on a well-formed index find_index_for(o) returns Some(i) exactly     *)
(* when o is stored; then the digest at i is o and i lies in the bucket of  *)
(* o's first byte, fanout[fb-1] <= i < fanout[fb] with lower bound 0 for    *)
(* fb = 0; when o is not stored it returns None.                            *)
C4_FindIndexForExact ==
    idxOp = "find_index_for" =>
        IF idxArg \in StoredOids
        THEN /\ idxRet.tag = "Ok" /\ idxRet.val.tag = "Some"
             /\ LET i == idxRet.val.val
                IN /\ i < NumDigests(idx)
                   /\ full_oid_to_u128_oid(idx.digests[i + 1]) = idxArg
                   /\ BucketLo(get_first_byte_of_oid(idxArg)) <= i
                   /\ i < BucketHi(get_first_byte_of_oid(idxArg))
        ELSE idxRet = Ok(None)

\* a stored id found in a full index, beyond its first entry
C4_FoundInLaterBucket ==
    /\ idxOp = "find_index_for"
    /\ NumDigests(idx) = MaxObjects
    /\ idxRet.tag = "Ok" /\ idxRet.val.tag = "Some"
    /\ idxRet.val.val > 0
    /\ get_first_byte_of_oid(idxArg) > 0

(* C9: the enumeration of partial matches with first byte b starts at       *)
(* fanout[b-1] (0 when b = 0), reads the entries of the bucket              *)
(* [fanout[b-1], fanout[b]) in order and leaves none out, and reads beyond  *)
(* the bucket only the entry it stops at, the first stored entry whose      *)
(* first byte exceeds b.                                                    *)
C9_WalkStaysInBucket ==
    idxOp = "get_partial_matches_with_locations" =>
        LET b == get_first_byte_of_oid(idxArg.oid)
            v == idxWalk.visited
        IN /\ ~idxWalk.panicked
           /\ \A k \in 1..Len(v) : v[k] = BucketLo(b) + k - 1
           /\ \A i \in BucketLo(b)..(BucketHi(b) - 1) : i \in SeqRange(v)
           /\ \A k \in 1..Len(v) :
                 v[k] >= BucketHi(b) =>
                    /\ k = Len(v)
                    /\ v[k] < NumDigests(idx)
                    /\ idx.digests[v[k] + 1][1] > b

---------------------------------------------------------------------------
(* Properties of the database facade                                       *)

\* the stored Oids, loose or packed, whose leading bits are those of p
MatchingInDb(p) ==
    {o \in LooseOids(fs) \cup PackedOids(fs) : TopBitsEqual(o, p.oid, OID_BITS - p.shift_by)}

(* C1: find_matching_oids(p, state, cb) invokes cb on exactly the Oids of   *)
(* the stored objects, loose or in any pack index, whose first bits_set(p)  *)
(* bits equal those of p: it completes, skips no such object and reports no *)
(* other Oid.                                                               *)
C1_FindsExactlyTheMatches ==
    dbOp = "find_matching_oids" =>
        /\ dbRet.tag = "Ok"
        /\ dbHits = MatchingInDb(dbArg)

(* C10: every enumeration (iter_all_known_objects, the State's              *)
(* iter_loose_folder and iter_known_packs) treats a loose folder or a pack  *)
(* directory that does not exist as empty: it returns success, having       *)
(* handed on what the existing directories hold.                            *)
C10_MissingDirectoriesAreEmpty ==
    /\ dbOp = "iter_loose_folder" =>
          /\ dbRet.tag = "Ok"
          /\ dbHits = {o \in LooseOids(fs) : get_first_byte_of_oid(o) = dbArg}
    /\ dbOp = "iter_known_packs" =>
          /\ dbRet.tag = "Ok"
          /\ dbHits = DOMAIN fs.idx
    /\ dbOp = "iter_all_known_objects" =>
          /\ dbRet.tag = "Ok"
          /\ {h.oid : h \in {x \in dbHits : x.kind = "Loose"}} = LooseOids(fs)
          /\ {h.id : h \in {x \in dbHits : x.kind = "Packed"}} = DOMAIN fs.idx

---------------------------------------------------------------------------
(* Properties of the delta patcher                                         *)

(* C6: whenever applying a delta stream with declared result size n         *)
(* succeeds, the copy and insert opcodes together wrote exactly n bytes.    *)
C6_SuccessWritesResultSize ==
    deltaRet.tag = "Ok" => deltaRet.result_pos = output_len

\* what the opcode stream asks for, read off the stream itself: some opcode
\* byte is 0, or the opcodes write more than out_len bytes, or a copy reads
\* past the end of the base
RECURSIVE StreamFault(_, _, _, _, _)
StreamFault(base, delta, index, result_pos, out_len) ==
    IF index >= Len(delta) THEN FALSE
    ELSE LET opcode == delta[index + 1]
         IN IF opcode = 0 THEN TRUE
            ELSE IF opcode < 128
                 THEN \/ result_pos + opcode > out_len
                      \/ /\ index + 1 + opcode <= Len(delta)
                         /\ StreamFault(base, delta, index + 1 + opcode, result_pos + opcode, out_len)
                 ELSE LET copy_offset == ReadOperand(delta, index + 1, opcode % 16, 0, 4)
                          copy_len == ReadOperand(delta, copy_offset.index, (opcode \div 16) % 8, 0, 3)
                          n == CopyLen(copy_len.value)
                      IN /\ ~copy_offset.panicked /\ ~copy_len.panicked
                         /\ \/ result_pos + n > out_len
                            \/ copy_offset.value + n > Len(base)
                            \/ StreamFault(base, delta, copy_len.index, result_pos + n, out_len)

(* C7: apply_delta returns an error, neither panicking nor returning a      *)
(* payload, when an opcode byte is 0, when a copy or insert would write     *)
(* past result_size, or when a copy would read past the end of the base.    *)
C7_FaultsAreErrors ==
    (deltaRet # None /\ StreamFault(base_data, delta_data, 0, 0, output_len))
        => deltaRet = Err

---------------------------------------------------------------------------
(* Properties of the loose object reader                                   *)

(* C8: for any byte string B, the empty and the very short ones included,   *)
(* reading a loose file whose stream is "blob " + decimal len(B) + NUL + B  *)
(* with blob bodies requested returns type Blob with payload exactly B.     *)
C8_LooseBlobRoundTrip ==
    (objRet # None /\ objFile.otype = "blob" /\ should_read_blobs
        /\ objFile.declared = Len(objFile.payload))
        => objRet = Ok([object_type |-> "blob", payload |-> objFile.payload])

(* C18: reading a loose object returns an error whenever the zlib stream    *)
(* ends before the payload size declared in the header has been produced,   *)
(* and a payload it returns holds only bytes decompressed from the file.    *)
C18_ShortStreamIsAnError ==
    objRet # None =>
        /\ (objFile.declared > Len(objFile.payload)
               /\ (should_read_blobs \/ objFile.otype # "blob"))
              => objRet.tag = "Err"
        /\ objRet.tag = "Ok" => objRet.val.payload \in {<<>>, objFile.payload}

---------------------------------------------------------------------------
(* Properties of the pack resolver                                         *)

\* the Oids an index lists
ListedIn(f) == {full_oid_to_u128_oid(f.digests[j]) : j \in 1..NumDigests(f)}
\* the request is for the scene's target, a reference delta in pack 1
AsksForRefTarget ==
    /\ packArg # None
    /\ scene.targetForm = "ref"
    /\ packArg.val.id = 1
    /\ get_oid_at_index(repo.idx[1], packArg.val.oid_index) = Some(full_oid_to_u128_oid(scene.target))
\* the base is stored outside the target's pack: in another pack or loose
BaseElsewhere ==
    /\ full_oid_to_u128_oid(scene.base) \notin ListedIn(repo.idx[1])
    /\ \/ \E id \in DOMAIN repo.idx : id # 1 /\ full_oid_to_u128_oid(scene.base) \in ListedIn(repo.idx[id])
       \/ \E o \in repo.loose : o.id = scene.base
\* the delta applied to the base's payload
Patched ==
    Ok([object_type |-> scene.base_type,
        payload |-> apply_delta(scene.base_payload, scene.ops, scene.result_size).val])

(* C5: resolving a packed RefDelta entry whose base is absent from the      *)
(* entry's own pack index but stored in another pack or as a loose object   *)
(* finds that base and returns the delta applied to the base's payload.     *)
C5_RefDeltaBaseFoundElsewhere ==
    (AsksForRefTarget /\ BaseElsewhere) => packRet = Patched

\* the Oids of the objects in loose folder b of a directory
FolderOids(d, b) == {o \in LooseOids(d) : get_first_byte_of_oid(o) = b}
\* this step is a call of iter_loose_folder(b), of iter_known_packs
LooseCallOn(b) ==
    /\ visited'.calls = visited.calls + 1
    /\ stCall'.op = "iter_loose_folder"
    /\ stCall'.arg = Some(b)
PacksCall ==
    /\ visited'.calls = visited.calls + 1
    /\ stCall'.op = "iter_known_packs"

(* C11: on a SlightlyBetterState the first iter_loose_folder(b) reads the   *)
(* folder and leaves in map b every object of the folder, even when the    *)
(* callback asked to stop early; every later iter_loose_folder(b) on that  *)
(* State reads no directory and hands on what map b holds.                 *)
C11_FirstCallReadsLaterCallsServed ==
    [][\A b \in FirstBytes : LooseCallOn(b) =>
          IF b \notin visited.loose
          THEN /\ stCall'.readdir
               /\ DOMAIN loose_map'[b] = FolderOids(disk, b)
          ELSE /\ ~stCall'.readdir
               /\ stCall'.given = Given(SortedSeq(DOMAIN loose_map[b]), stCall'.stop_at)
               /\ loose_map'[b] = loose_map[b]]_vars

(* C12: once the first iter_known_packs call has returned, known_packs     *)
(* holds the id of every pack index file of the pack directory, whether or *)
(* not the callback asked to stop early, and a later call hands on exactly *)
(* those ids without reading the directory.                                *)
C12_KnownPacksHoldsEveryIndex ==
    [][PacksCall =>
          /\ SeqRange(known_packs') = DOMAIN disk.idx
          /\ visited.pack =>
                /\ ~stCall'.readdir
                /\ stCall'.given = Given(known_packs, stCall'.stop_at)
                /\ known_packs' = known_packs]_vars

(* C13: a call on the State that fails leaves loose_map and known_packs as *)
(* they were before the call.                                              *)
C13_FailedCallKeepsCaches ==
    [][(visited'.calls = visited.calls + 1 /\ stCall'.ret.tag # "Ok") =>
          /\ loose_map' = loose_map
          /\ known_packs' = known_packs]_vars

\* the stored objects a partial id matches: the loose ones, those of pack id
LooseMatching(p) ==
    {o \in LooseOids(fs) : TopBitsEqual(o, p.oid, OID_BITS - p.shift_by)}
PackMatching(p, id) ==
    {o \in {full_oid_to_u128_oid(fs.idx[id].digests[j]) : j \in 1..NumDigests(fs.idx[id])} :
        TopBitsEqual(o, p.oid, OID_BITS - p.shift_by)}

(* C14: find_first_matching_oid_with_location searches loose objects       *)
(* before any pack: when a loose object matches it returns a matching      *)
(* loose location and has opened no pack index; otherwise it returns the   *)
(* first match of the first pack, in the order the packs are enumerated,   *)
(* that holds one; its callback receives at most one candidate; and it     *)
(* returns an error exactly when no loose or packed object matches.        *)
C14_LooseFirstThenPacks ==
    dbOp = "find_first_matching_oid_with_location" =>
        LET p == dbArg.partial
            order == dbArg.pack_order
            holding == {k \in 1..Len(order) : PackMatching(p, order[k]) # {}}
            first == CHOOSE k \in holding : \A j \in holding : k <= j
        IN /\ Cardinality(dbHits) <= 1
           /\ dbRet.ret.tag \in {"Ok", "Err"}
           /\ dbRet.ret.tag = "Err" <=> (LooseMatching(p) = {} /\ holding = {})
           /\ LooseMatching(p) # {} =>
                 /\ dbRet.ret.tag = "Ok"
                 /\ dbRet.ret.val.kind = "Loose"
                 /\ dbRet.ret.val.oid \in LooseMatching(p)
                 /\ dbRet.opened = {}
           /\ (LooseMatching(p) = {} /\ holding # {}) =>
                 /\ dbRet.ret.tag = "Ok"
                 /\ dbRet.ret.val.kind = "Packed"
                 /\ dbRet.ret.val.id = order[first]
                 /\ dbRet.ret.val.oid = SortedSeq(PackMatching(p, order[first]))[1]

\* numbers of any size as base-128 digits, least significant first
BigAddOne(v) ==
    IF \A k \in 1..Len(v) : v[k] = 127 THEN Rep(0, Len(v)) \o <<1>>
    ELSE LET j == CHOOSE j \in 1..Len(v) : v[j] < 127 /\ \A i \in 1..(j - 1) : v[i] = 127
         IN [k \in 1..Len(v) |-> IF k < j THEN 0 ELSE IF k = j THEN v[k] + 1 ELSE v[k]]
BigIsSmall(v) == \A k \in 5..Len(v) : v[k] = 0
BigSmall(v) == LET digit(k) == IF k <= Len(v) THEN v[k] ELSE 0
               IN digit(1) + 128 * digit(2) + 128 * 128 * digit(3) + 128 * 128 * 128 * digit(4)
\* v = b0 & 0x7F, then while the MSB is set v = ((v + 1) << 7) | (next & 0x7F)
RECURSIVE DistanceFrom(_, _, _)
DistanceFrom(file, at, v) ==
    LET next == <<file[at + 1] % 128>> \o BigAddOne(v)
    IN IF file[at + 1] < 128 THEN next ELSE DistanceFrom(file, at + 1, next)
Distance(file, at) ==
    IF file[at + 1] < 128 THEN <<file[at + 1]>> ELSE DistanceFrom(file, at + 1, <<file[at + 1] % 128>>)
\* the number of bytes of the size that starts the entry at index `at`
RECURSIVE SizeLen(_, _)
SizeLen(file, at) == IF file[at + 1] < 128 THEN 1 ELSE 1 + SizeLen(file, at + 1)

(* C15: when header parsing of an OfsDelta entry at pack offset i succeeds, *)
(* the distance v encoded after the size (v = b0 & 0x7F, then while the MSB *)
(* is set v = ((v + 1) << 7) | (next & 0x7F)) is at most i and the base     *)
(* offset returned is i - v; parsing fails when v > i.                      *)
C15_OfsDeltaBaseIsIndexMinusDistance ==
    (hdrRet.tag = "Ok" /\ hdrRet.val.obj_type.kind = "OfsDelta") =>
        LET v == Distance(hdrFile, hdrIndex + SizeLen(hdrFile, hdrIndex))
        IN /\ BigIsSmall(v)
           /\ BigSmall(v) <= hdrIndex
           /\ hdrRet.val.obj_type.base_starts_at = hdrIndex - BigSmall(v)

\* the entry at hdrIndex: its type tag, whether a byte with the MSB clear
\* ends its size within n bytes and inside the file, and the size the
\* bytes spell: (b0 & 0x0F) plus (b_j & 0x7F) << (4 + 7(j-1))
TagAt(file, at) == (file[at + 1] \div 16) % 8
SizeEndsWithin(file, at, n) ==
    \E j \in 1..Min(n, Len(file) - at) : file[at + j] < 128
RECURSIVE SizeFrom(_, _, _)
SizeFrom(file, at, j) ==
    LET bits == file[at + j + 1] % 128
        term == IF bits = 0 THEN 0 ELSE bits * Pow2(4 + 7 * (j - 1))
    IN IF file[at + j + 1] < 128 THEN term ELSE term + SizeFrom(file, at, j + 1)
SizeAt(file, at) ==
    (file[at + 1] % 16) + (IF file[at + 1] < 128 THEN 0 ELSE SizeFrom(file, at, 1))
\* what the claim promises of the call on an entry it covers
HeaderParsed ==
    /\ (TagAt(hdrFile, hdrIndex) \in {0, 5} \/ ~SizeEndsWithin(hdrFile, hdrIndex, try_read_size))
          => hdrRet.tag = "Err"
    /\ (TagAt(hdrFile, hdrIndex) \in 1..4 /\ SizeEndsWithin(hdrFile, hdrIndex, try_read_size))
          => /\ hdrRet.tag = "Ok"
             /\ hdrRet.val.starts_at = hdrIndex + SizeLen(hdrFile, hdrIndex)
    /\ hdrRet.tag = "Ok"
          => /\ hdrRet.val.length = SizeAt(hdrFile, hdrIndex)
             /\ hdrRet.val.starts_at >= hdrIndex + SizeLen(hdrFile, hdrIndex)

U64Of(at) == <<0, 0, 0, 0>> \o [k \in 1..4 |-> BE32(at, k - 1)]

(* C17: for every fanout index i below num_objects the pack offset lookup   *)
(* returns, on a v1 index, the u32 written in the 4 bytes before digest i,  *)
(* and on a v2 index entry i of the offset table when its MSB is clear,     *)
(* otherwise the 8-byte entry of the large offset table that the low 31     *)
(* bits of entry i index.                                                   *)
C17_OffsetLookup ==
    (idxOp = "find_packfile_index_from_fanout_index" /\ idxArg < NumDigests(idx)) =>
        LET entry == idx.offsets[idxArg + 1]
        IN idxRet = Some(IF entry.large THEN idx.large[entry.at + 1] ELSE U64Of(entry.at))

\* the lookup followed the second entry of the large offset table
C17_SecondLargeOffsetRead ==
    /\ idxOp = "find_packfile_index_from_fanout_index"
    /\ idxArg < NumDigests(idx)
    /\ idx.offsets[idxArg + 1].large
    /\ idx.offsets[idxArg + 1].at = 1
    /\ idxRet = Some(LargeOffsetOf(2))

---------------------------------------------------------------------------
(* Creating a State or a LightObjectDB on a base directory:               *)
(* state.rs MinState::new, SlightlyBetterState::new, mod.rs                *)
(* LightObjectDB::new, and the path buffer they fill                       *)

MAX_PATH_TO_DB_LEN == 4096
max_extend_by == 60
\* main_sep_byte(): '/' on Unix, '\' on Windows
SepBytes == {47, 92}

\* p_len > MAX_PATH_TO_DB_LEN - max_extend_by
TooLongStrict(p_len) == p_len > MAX_PATH_TO_DB_LEN - max_extend_by
\* p_len >= MAX_PATH_TO_DB_LEN - max_extend_by
TooLong(p_len) == p_len >= MAX_PATH_TO_DB_LEN - max_extend_by

\* the [u8; MAX_PATH_TO_DB_LEN] holding the path and the separator after it
PathBuffer(p, s) ==
    [k \in 1..MAX_PATH_TO_DB_LEN |->
        IF k <= Len(p) THEN p[k] ELSE IF k = Len(p) + 1 THEN s ELSE 0]

MinState_new(p, s) ==
    IF TooLong(Len(p)) THEN Err
    ELSE Ok([path_to_db_bytes |-> PathBuffer(p, s),
             path_to_db_bytes_start |-> Len(p) + 1])

SlightlyBetterState_new(p, s) ==
    LET Built(min) ==
            IF min.tag = "Err" THEN Err
            ELSE Ok([path_to_db_bytes |-> min.val.path_to_db_bytes,
                     path_to_db_bytes_start |-> min.val.path_to_db_bytes_start,
                     loose_map |-> default_loose_map,
                     known_packs |-> <<>>])
    IN Built(MinState_new(p, s))

LightObjectDB_new(p, s) ==
    IF TooLong(Len(p)) THEN Err
    ELSE Ok([path_to_db |-> p,
             path_to_db_bytes |-> PathBuffer(p, s),
             path_to_db_bytes_start |-> Len(p) + 1])

\* the buffer with extend_by copied after the separator, and where it ends;
\* a slice that leaves the buffer panics
get_static_path_str(self, extend_by) ==
    LET start == self.path_to_db_bytes_start
        take_slice_to == start + Len(extend_by)
    IN IF take_slice_to > MAX_PATH_TO_DB_LEN THEN Panic
       ELSE [tag |-> "Ok",
             take_slice_to |-> take_slice_to,
             stack_arr |-> [k \in 1..MAX_PATH_TO_DB_LEN |->
                               IF k > start /\ k <= take_slice_to
                               THEN extend_by[k - start]
                               ELSE self.path_to_db_bytes[k]]]

\* the longest base directory tried
MaxPathLen == 4040
PathLens == {n \in {0, 1, 100} \cup 4032..MaxPathLen : n <= MaxPathLen}
\* "hh", "hh/<38 hex>", "pack/pack-<40 hex>.idx", "pack/pack-<40 hex>.pack",
\* and the longest extension new leaves room for
ExtendLens == {2, 41, 54, 55, max_extend_by}

InitPath ==
    /\ \E n \in PathLens : path = Rep(97, n)
    /\ sep \in SepBytes
    /\ build \in {"debug", "release"}
    /\ ctor = "none"
    /\ created = None
    /\ static_path = None
    /\ OidIdle
    /\ IdxIdle
    /\ DbIdle
    /\ DeltaIdle
    /\ ObjIdle
    /\ PackIdle
    /\ StIdle
    /\ HdrIdle
    /\ ParseIdle
    /\ CommitIdle
    /\ TreeIdle
    /\ MapIdle
    /\ SpIdle

MinStateNew ==
    /\ created = None
    /\ ctor' = "MinState"
    /\ created' = MinState_new(path, sep)
    /\ UNCHANGED <<path, sep, static_path, exceptPath>>

SlightlyBetterStateNew ==
    /\ created = None
    /\ ctor' = "SlightlyBetterState"
    /\ created' = SlightlyBetterState_new(path, sep)
    /\ UNCHANGED <<path, sep, static_path, exceptPath>>

LightObjectDBNew ==
    /\ created = None
    /\ ctor' = "LightObjectDB"
    /\ created' = LightObjectDB_new(path, sep)
    /\ UNCHANGED <<path, sep, static_path, exceptPath>>

\* state.get_static_path_str(extend_by) on what new returned
GetStaticPathStr ==
    /\ created.tag = "Ok"
    /\ static_path = None
    /\ \E n \in ExtendLens :
          static_path' = get_static_path_str(created.val, Rep(120, n))
    /\ UNCHANGED <<path, ctor, sep, created, exceptPath>>

NextPath ==
    \/ MinStateNew
    \/ SlightlyBetterStateNew
    \/ LightObjectDBNew
    \/ GetStaticPathStr
SpecPath == InitPath /\ [][NextPath]_vars

\* C19 as stated: creating a State or a LightObjectDB succeeds for every base
\* directory of at most 4036 bytes and fails for every longer one.
C19_CreatedIffAtMost4036 ==
    created # None => (created.tag = "Ok" <=> Len(path) <= 4036)

\* C19 amended: creation succeeds for every base directory of at most 4035
\* bytes and fails for every one of 4036 bytes or more; what it returns holds
\* the path followed by the separator.
C19_CreatedIffAtMost4035 ==
    created # None =>
        /\ created.tag = "Ok" <=> Len(path) <= 4035
        /\ created.tag = "Ok" =>
              /\ created.val.path_to_db_bytes_start = Len(path) + 1
              /\ SubSeq(created.val.path_to_db_bytes, 1, Len(path) + 1)
                     = Append(path, sep)

\* a base directory of exactly 4036 bytes has been refused
C19_Refused4036 ==
    /\ ctor # "none"
    /\ Len(path) = 4036
    /\ created = Err

---------------------------------------------------------------------------
(* Parsing hex strings into identifiers: object_id.rs hash_str_to_oid,     *)
(* full_oid_from_str                                                       *)

\* the two bytes of a character that UTF-8 encodes on two bytes
LeadByte == 18
ContByte == 19

\* s.is_char_boundary(k), k counted from 0
is_char_boundary(s, k) ==
    \/ k = 0
    \/ k = Len(s)
    \/ k < Len(s) /\ s[k + 1] # ContByte

\* s.get(a..b): None when the range leaves the string or cuts a character
str_get(s, a, b) ==
    IF b <= Len(s) /\ is_char_boundary(s, a) /\ is_char_boundary(s, b)
    THEN Some(SubSeq(s, a + 1, b))
    ELSE None

hash_str_to_oid(h) ==
    LET trunc_str == str_get(h, 0, OID_STR_LEN)
    IN IF trunc_str.tag = "None" THEN Err
       ELSE oid_str_truncated_to_oid(trunc_str.val)

\* the loop of full_oid_from_str from its i-th round on; &first_40[range]
\* panics when the range cuts a character
RECURSIVE FullOidFrom(_, _, _)
FullOidFrom(first_40, i, oid_full) ==
    IF i = SHA1_SIZE THEN Some(oid_full)
    ELSE IF ~(is_char_boundary(first_40, 2 * i) /\ is_char_boundary(first_40, 2 * i + 2))
    THEN Panic
    ELSE LET Rest(byte) ==
                 IF byte.tag = "Err" THEN None
                 ELSE FullOidFrom(first_40, i + 1, Append(oid_full, byte.val[1]))
         IN Rest(from_str_radix(SubSeq(first_40, 2 * i + 1, 2 * i + 2)))

full_oid_from_str(h) ==
    LET first_40 == str_get(h, 0, 2 * SHA1_SIZE)
    IN IF first_40.tag = "None" THEN None
       ELSE FullOidFrom(first_40.val, 0, <<>>)

\* the longest string parsed
MaxHexLen == 41
HexLens == {n \in {0, 1, 31, 32, 33, 39, 40, MaxHexLen} : n <= MaxHexLen}
\* n hex characters: those of the digest d, then '7's
HexRun(d, n) == [i \in 1..n |-> IF i <= 2 * SHA1_SIZE THEN HexOf(d)[i] ELSE 7]
\* the strings parsed: hex characters, with at most one character that is
\* not a hex digit ('+', another ASCII character, or a two-byte character)
HexStrings ==
    UNION {
        {HexRun(d, n)}
          \cup {[HexRun(d, n) EXCEPT ![at] = c] :
                   at \in 1..n, c \in {PlusChar, NonHexChar}}
          \cup {[HexRun(d, n) EXCEPT ![at] = LeadByte, ![at + 1] = ContByte] :
                   at \in 1..(n - 1)}
        : d \in DigestUniverse, n \in HexLens}

InitParse ==
    /\ hex \in HexStrings
    /\ build \in {"debug", "release"}
    /\ parseOp = "none"
    /\ parseRet = None
    /\ OidIdle
    /\ IdxIdle
    /\ DbIdle
    /\ DeltaIdle
    /\ ObjIdle
    /\ PackIdle
    /\ StIdle
    /\ HdrIdle
    /\ PathIdle
    /\ CommitIdle
    /\ TreeIdle
    /\ MapIdle
    /\ SpIdle

HashStrToOid ==
    /\ parseOp = "none"
    /\ parseOp' = "hash_str_to_oid"
    /\ parseRet' = hash_str_to_oid(hex)
    /\ UNCHANGED <<hex, exceptParse>>

FullOidFromStr ==
    /\ parseOp = "none"
    /\ parseOp' = "full_oid_from_str"
    /\ parseRet' = full_oid_from_str(hex)
    /\ UNCHANGED <<hex, exceptParse>>

NextParse == HashStrToOid \/ FullOidFromStr
SpecParse == InitParse /\ [][NextParse]_vars

\* the characters of a string: the bytes that do not continue a character
CharsOf(s) == {k \in 1..Len(s) : s[k] # ContByte}
\* s has fewer than n characters, or one that is not a hex digit among its
\* first n
ShortOrNotHex(s, n) ==
    \/ Cardinality(CharsOf(s)) < n
    \/ \E k \in CharsOf(s) :
          /\ Cardinality({j \in CharsOf(s) : j <= k}) <= n
          /\ s[k] > 15

\* C20: parsing hex into an Oid does not succeed on a string that has fewer
\* than 32 characters or a non-hexadecimal character among its first 32, and
\* parsing hex into an OidFull does not succeed on a string that has fewer
\* than 40 characters or a non-hexadecimal character among its first 40.
C20_ShortOrNotHexIsRefused ==
    /\ (parseOp = "hash_str_to_oid" /\ ShortOrNotHex(hex, OID_STR_LEN))
          => parseRet.tag # "Ok"
    /\ (parseOp = "full_oid_from_str" /\ ShortOrNotHex(hex, 2 * SHA1_SIZE))
          => parseRet.tag # "Some"

---------------------------------------------------------------------------
(* Commit parsers: loose/parsed/commit_object_parsing.rs                   *)

\* b"tree ", b"parent ", b"author ", b"committer ", b"mergetag "
TREE_WORD == <<116, 114, 101, 101, 32>>
PARENT_WORD == <<112, 97, 114, 101, 110, 116, 32>>
AUTHOR_WORD == <<97, 117, 116, 104, 111, 114, 32>>
COMMITTER_WORD == <<99, 111, 109, 109, 105, 116, 116, 101, 114, 32>>
MERGETAG_WORD == <<109, 101, 114, 103, 101, 116, 97, 103, 32>>
NEWLINE == 10
SPACE == 32

\* raw.get(a..b), a and b counted from 0
SliceGet(q, a, b) == IF a <= b /\ b <= Len(q) THEN Some(SubSeq(q, a + 1, b)) ELSE None
\* q.iter().position(|b| b == byte), counted from 0
Position(q, byte) ==
    IF \E k \in 1..Len(q) : q[k] = byte
    THEN Some((CHOOSE k \in 1..Len(q) : q[k] = byte /\ \A j \in 1..(k - 1) : q[j] # byte) - 1)
    ELSE None

\* the character from_str_radix sees in an ASCII byte: a hex digit's value
\* (either case), '+', or a character it rejects
CharOfByte(b) ==
    IF b \in 48..57 THEN b - 48
    ELSE IF b \in 97..102 THEN b - 87
    ELSE IF b \in 65..70 THEN b - 55
    ELSE IF b = 43 THEN PlusChar
    ELSE NonHexChar
\* std::str::from_utf8 then Oid::from_str_radix(.., 16) on 32 bytes; the
\* byte 0xff is in no UTF-8 string
OidOfHexBytes(q) ==
    IF \E k \in 1..Len(q) : q[k] = 255 THEN Err
    ELSE from_str_radix([k \in 1..Len(q) |-> CharOfByte(q[k])])

\* parse_tree: Ok with the tree and the next index, or Err
parse_tree(data, should_allocate) ==
    IF ~should_allocate THEN [tag |-> "Ok", val |-> ZeroOid, curr |-> 46]
    ELSE LET line == SliceGet(data, 0, 46)
         IN IF line.tag = "None" THEN Err
            ELSE IF SubSeq(line.val, 1, 5) # TREE_WORD THEN Err
            ELSE IF line.val[46] # NEWLINE THEN Err
            ELSE LET Made(oid) ==
                         IF oid.tag = "Err" THEN Err
                         ELSE [tag |-> "Ok", val |-> oid.val, curr |-> 46]
                 IN Made(OidOfHexBytes(SubSeq(line.val, 6, 37)))

\* parse_parent: Ok with Some(parent) or None and the cursor, or Err
parse_parent(data, curr_index) ==
    LET start_index == curr_index
        line == SliceGet(data, start_index, start_index + 7)
    IN IF line.tag = "None" THEN Err
       ELSE IF line.val = AUTHOR_WORD
       THEN [tag |-> "Ok", val |-> None, curr |-> curr_index]
       ELSE IF line.val # PARENT_WORD THEN Err
       ELSE LET hash_line == SliceGet(data, start_index + 7, start_index + 7 + 41)
            IN IF hash_line.tag = "None" THEN Err
               ELSE IF hash_line.val[41] # NEWLINE THEN Err
               ELSE LET Made(oid) ==
                            IF oid.tag = "Err" THEN Err
                            ELSE [tag |-> "Ok", val |-> Some(oid.val),
                                  curr |-> start_index + 7 + 41]
                    IN Made(OidOfHexBytes(SubSeq(hash_line.val, 1, 32)))

\* parse_author: Ok with the author string and the cursor, or Err
parse_author(data, curr_index, should_allocate) ==
    LET start_index == curr_index
        line == SliceGet(data, start_index, start_index + 7)
    IN IF line.tag = "None" THEN Err
       ELSE IF line.val # AUTHOR_WORD THEN Err
       ELSE LET rest_of_data == SubSeq(data, start_index + 7 + 1, Len(data))
                newline_index == Position(rest_of_data, NEWLINE)
            IN IF newline_index.tag = "None" THEN Err
               ELSE [tag |-> "Ok",
                     val |-> IF should_allocate
                             THEN SubSeq(rest_of_data, 1, newline_index.val)
                             ELSE <<>>,
                     curr |-> start_index + 7 + newline_index.val + 1]

\* the loop of parse_mergetag over current_data from its k-th byte on:
\* how many bytes to skip, and whether another mergetag follows
RECURSIVE MergetagScan(_, _, _, _)
MergetagScan(current_data, k, skip_chars, last_char_was_newline) ==
    IF k > Len(current_data) THEN [again |-> FALSE, skip |-> skip_chars]
    ELSE IF last_char_was_newline
    THEN IF current_data[k] = SPACE
         THEN MergetagScan(current_data, k + 1, skip_chars + 1, FALSE)
         ELSE IF current_data[k] = NEWLINE
         THEN [again |-> FALSE, skip |-> skip_chars + 1]
         ELSE [again |-> TRUE, skip |-> skip_chars]
    ELSE MergetagScan(current_data, k + 1, skip_chars + 1, current_data[k] = NEWLINE)

\* parse_mergetag: Ok with the cursor after the mergetag, or Err
RECURSIVE parse_mergetag(_, _)
parse_mergetag(data, curr_index) ==
    LET start_index == curr_index
        line == SliceGet(data, start_index, start_index + 9)
    IN IF line.tag = "None" THEN Err
       ELSE IF line.val # MERGETAG_WORD THEN Err
       ELSE LET After(scan) ==
                    IF scan.again THEN parse_mergetag(data, curr_index + scan.skip)
                    ELSE [tag |-> "Ok", curr |-> curr_index + scan.skip]
            IN After(MergetagScan(SubSeq(data, start_index + 1, Len(data)), 1, 0, FALSE))

\* parse_committer: Ok with the committer string and the cursor, Err, or a
\* panic when the committer line's newline is the last byte
parse_committer(data, curr_index, should_allocate) ==
    LET start_index == curr_index
        line == SliceGet(data, start_index, start_index + 10)
    IN IF line.tag = "None" THEN Err
       ELSE IF line.val # COMMITTER_WORD THEN Err
       ELSE LET rest_of_data == SubSeq(data, start_index + 10 + 1, Len(data))
                newline_index == Position(rest_of_data, NEWLINE)
            IN IF newline_index.tag = "None" THEN Err
               ELSE LET committer_str == IF should_allocate
                                         THEN SubSeq(rest_of_data, 1, newline_index.val)
                                         ELSE <<>>
                    IN IF newline_index.val + 1 >= Len(rest_of_data) THEN Panic
                       ELSE IF rest_of_data[newline_index.val + 2] # NEWLINE
                       THEN LET After(tag) ==
                                    IF tag.tag = "Err" THEN Err
                                    ELSE [tag |-> "Ok", val |-> committer_str,
                                          curr |-> tag.curr]
                            IN After(parse_mergetag(data,
                                         start_index + 10 + newline_index.val + 1))
                       ELSE [tag |-> "Ok", val |-> committer_str,
                             curr |-> start_index + 10 + newline_index.val + 2]

\* out.extra_parents.push(parent), wrongly at the front
PushParentFront(extra_parents, parent) == <<parent>> \o extra_parents
\* out.extra_parents.push(parent)
PushParent(extra_parents, parent) == Append(extra_parents, parent)

\* the parent lines from the cursor on, the k-th (from 0) stored in out: the
\* two unrolled calls of parse_parent and the loop after them
RECURSIVE ParentsFrom(_, _, _, _)
ParentsFrom(data, curr, k, out) ==
    LET Stored(parent) ==
            IF parent.tag = "Err" THEN Err
            ELSE IF parent.val.tag = "None"
            THEN [tag |-> "Ok", val |-> out, curr |-> parent.curr]
            ELSE ParentsFrom(data, parent.curr, k + 1,
                     IF k = 0 THEN [out EXCEPT !.parent_one = parent.val.val]
                     ELSE IF k = 1 THEN [out EXCEPT !.parent_two = parent.val.val]
                     ELSE [out EXCEPT !.extra_parents =
                                          PushParent(out.extra_parents, parent.val.val)])
    IN Stored(parse_parent(data, curr))

\* Self::default() of the commit structs
DefaultCommit ==
    [tree |-> ZeroOid, parent_one |-> ZeroOid, parent_two |-> ZeroOid,
     extra_parents |-> <<>>]

CommitOnlyTreeAndParents_parse_inner(data) ==
    LET Parents(tree) ==
            IF tree.tag = "Err" THEN Err
            ELSE ParentsFrom(data, tree.curr, 0, [DefaultCommit EXCEPT !.tree = tree.val])
    IN Parents(parse_tree(data, TRUE))

\* CommitOnlyParents has no tree field; the model leaves it zero
CommitOnlyParents_parse_inner(data) ==
    LET Parents(tree) == ParentsFrom(data, tree.curr, 0, DefaultCommit)
    IN Parents(parse_tree(data, FALSE))

\* parse_author, parse_committer and `&raw[*current_index..]` after the
\* parents were read into head: the strings and the rest of the data
AuthorCommitterRest(data, head, should_allocate) ==
    LET Rest(author, committer) ==
            IF committer.tag # "Ok" THEN committer
            ELSE [tag |-> "Ok", head |-> head.val, author |-> author.val,
                  committer |-> committer.val,
                  rest_of_data |-> SubSeq(data, committer.curr + 1, Len(data))]
        Committer(author) ==
            IF author.tag = "Err" THEN Err
            ELSE Rest(author, parse_committer(data, author.curr, should_allocate))
    IN IF head.tag = "Err" THEN Err
       ELSE Committer(parse_author(data, head.curr, should_allocate))

\* the loop of CommitFull::parse_inner that drops trailing newlines, from
\* last_index (counted from 0) down.  `last_index -= 1` at 0 panics in a debug
\* build and wraps in a release build, where get then finds nothing
RECURSIVE TrimNewlines(_, _, _)
TrimNewlines(rest_of_data, last_index, b) ==
    IF rest_of_data[last_index + 1] # NEWLINE THEN Ok(SubSeq(rest_of_data, 1, last_index + 1))
    ELSE IF last_index = 0 THEN (IF b = "debug" THEN Panic ELSE Err)
    ELSE TrimNewlines(rest_of_data, last_index - 1, b)

\* the message of CommitFull: `rest_of_data.len() - 1` on an empty rest
\* panics in a debug build and wraps in a release build, where
\* rest_of_data[last_index] is then out of bounds
FullMessage(rest_of_data, b) ==
    IF Len(rest_of_data) = 0 THEN Panic
    ELSE TrimNewlines(rest_of_data, Len(rest_of_data) - 1, b)

\* the message of the only-message variants: up to the first newline
FirstLine(rest_of_data) ==
    LET Upto(newline_index) ==
            IF newline_index.tag = "Some" THEN SubSeq(rest_of_data, 1, newline_index.val)
            ELSE rest_of_data
    IN Upto(Position(rest_of_data, NEWLINE))

CommitFull_parse_inner(data, b) ==
    LET Built(parts) ==
            IF parts.tag # "Ok" THEN parts
            ELSE LET Made(message) ==
                         IF message.tag # "Ok" THEN message
                         ELSE Ok([tree |-> parts.head.tree,
                                  parent_one |-> parts.head.parent_one,
                                  parent_two |-> parts.head.parent_two,
                                  extra_parents |-> parts.head.extra_parents,
                                  author |-> parts.author,
                                  committer |-> parts.committer,
                                  message |-> message.val])
                 IN Made(FullMessage(parts.rest_of_data, b))
    IN Built(AuthorCommitterRest(data, CommitOnlyTreeAndParents_parse_inner(data), TRUE))

\* CommitFullOnlyMessage (should_allocate) and
\* CommitOnlyMessageNoAuthorOrCommitter (not): the same code but for the flag
CommitOnlyMessage_parse_inner(data, should_allocate) ==
    LET Built(parts) ==
            IF parts.tag # "Ok" THEN parts
            ELSE Ok([tree |-> parts.head.tree,
                     parent_one |-> parts.head.parent_one,
                     parent_two |-> parts.head.parent_two,
                     extra_parents |-> parts.head.extra_parents,
                     author |-> parts.author,
                     committer |-> parts.committer,
                     message |-> FirstLine(parts.rest_of_data)])
    IN Built(AuthorCommitterRest(data, CommitOnlyTreeAndParents_parse_inner(data),
                                 should_allocate))

CommitOnlyParentsAndMessage_parse_inner(data) ==
    LET Built(parts) ==
            IF parts.tag # "Ok" THEN parts
            ELSE Ok([parent_one |-> parts.head.parent_one,
                     parent_two |-> parts.head.parent_two,
                     extra_parents |-> parts.head.extra_parents,
                     message |-> FirstLine(parts.rest_of_data)])
    IN Built(AuthorCommitterRest(data, CommitOnlyParents_parse_inner(data), FALSE))

\* message.find("\n\n"), counted from 0
FindBlankLine(message) ==
    IF \E k \in 1..(Len(message) - 1) : message[k] = NEWLINE /\ message[k + 1] = NEWLINE
    THEN Some((CHOOSE k \in 1..(Len(message) - 1) :
                  /\ message[k] = NEWLINE /\ message[k + 1] = NEWLINE
                  /\ \A j \in 1..(k - 1) : ~(message[j] = NEWLINE /\ message[j + 1] = NEWLINE))
              - 1)
    ELSE None

CommitFullMessageAndDescription_parse_inner(data, b) ==
    LET Split(full_commit) ==
            IF full_commit.tag # "Ok" THEN full_commit
            ELSE LET Made(newline_index) ==
                         IF newline_index.tag = "Some"
                         THEN Ok([full_commit.val EXCEPT
                                    !.message = SubSeq(full_commit.val.message, 1,
                                                       newline_index.val)]
                                 @@ [description |->
                                        SubSeq(full_commit.val.message,
                                               newline_index.val + 2,
                                               Len(full_commit.val.message))])
                         ELSE Ok(full_commit.val @@ [description |-> <<>>])
                 IN Made(FindBlankLine(full_commit.val.message))
    IN Split(CommitFull_parse_inner(data, b))

\* the result of a parse_inner without its cursor
Parsed(ret) == IF ret.tag = "Ok" THEN Ok(ret.val) ELSE ret

\* ParseCommit::parse of each variant
ParseCommit(variant, data, b) ==
    CASE variant = "CommitFull" -> CommitFull_parse_inner(data, b)
      [] variant = "CommitFullMessageAndDescription" ->
             CommitFullMessageAndDescription_parse_inner(data, b)
      [] variant = "CommitFullOnlyMessage" -> CommitOnlyMessage_parse_inner(data, TRUE)
      [] variant = "CommitOnlyMessageNoAuthorOrCommitter" ->
             CommitOnlyMessage_parse_inner(data, FALSE)
      [] variant = "CommitOnlyParentsAndMessage" ->
             CommitOnlyParentsAndMessage_parse_inner(data)
      [] variant = "CommitOnlyParents" -> Parsed(CommitOnlyParents_parse_inner(data))
      [] variant = "CommitOnlyTreeAndParents" ->
             Parsed(CommitOnlyTreeAndParents_parse_inner(data))
CommitVariants ==
    {"CommitFull", "CommitFullMessageAndDescription", "CommitFullOnlyMessage",
     "CommitOnlyMessageNoAuthorOrCommitter", "CommitOnlyParentsAndMessage",
     "CommitOnlyParents", "CommitOnlyTreeAndParents"}

\* the ASCII hex string of a byte sequence, as git writes it
HexAscii(bytes) ==
    [i \in 1..(2 * Len(bytes)) |->
        IF HexOf(bytes)[i] < 10 THEN 48 + HexOf(bytes)[i] ELSE 87 + HexOf(bytes)[i]]
TreeLine(d) == TREE_WORD \o HexAscii(d) \o <<NEWLINE>>
ParentLine(d) == PARENT_WORD \o HexAscii(d) \o <<NEWLINE>>

\* most parents of a commit of the model
MaxParents == 4
\* the parents of the model's commits, in the order the commits name them
ParentDigests ==
    <<Digest(127, 15, 0), Digest(0, 240, 0), Digest(255, 15, 0), Digest(0, 15, 0),
      Digest(127, 240, 0), Digest(255, 240, 0)>>
RECURSIVE Concat(_)
Concat(qs) == IF qs = <<>> THEN <<>> ELSE Head(qs) \o Concat(Tail(qs))
ParentLines(n) == Concat([k \in 1..n |-> ParentLine(ParentDigests[k])])

\* what a tree or parent line can look like: as git writes it, or with its
\* first byte, a hex character or its newline replaced
LineDamages ==
    {<<>>, <<1, 120>>, <<6, 103>>, <<6, 43>>, <<45, 103>>, <<46, SPACE>>}
Damaged(line, damage, shift) ==
    IF damage = <<>> THEN line ELSE [line EXCEPT ![damage[1] + shift] = damage[2]]
\* the parent lines of a commit: up to MaxParents, at most the second damaged
ParentBlocks ==
    {ParentLines(n) : n \in 0..MaxParents}
        \cup {ParentLine(ParentDigests[1]) \o Damaged(ParentLine(ParentDigests[2]), damage, 2)
                 \o ParentLine(ParentDigests[3]) : damage \in LineDamages \ {<<>>}}

\* commit messages: none, only newlines, one line, a description after it
Messages ==
    {<<>>, <<NEWLINE>>, <<NEWLINE, NEWLINE>>, <<109>>, <<109, 10>>,
     <<109, 10, 10, 100>>, <<109, 10, 10, 100, 10>>}
AuthorLine == AUTHOR_WORD \o <<65, 32, 60, 97, 62, 32, 49, 32, 43, 48, 48, 48, 48, 10>>
CommitterLine == COMMITTER_WORD \o <<67, 32, 60, 99, 62, 32, 50, 32, 43, 48, 48, 48, 48, 10>>
MergetagBlock == MERGETAG_WORD \o <<111, 98, 106, 101, 99, 116, 32, 48, 48, 10, 32, 116, 121, 112, 101, 32, 99, 111, 109, 109, 105, 116, 10, 10>>
\* what follows the author line: the committer line, a blank line and the
\* message; the same with a mergetag; or a committer line cut short
CommitTails ==
    {CommitterLine \o <<NEWLINE>> \o m : m \in Messages}
        \cup {CommitterLine \o MergetagBlock \o m : m \in {<<>>, <<109, 10>>}}
        \cup {CommitterLine, SubSeq(CommitterLine, 1, Len(CommitterLine) - 1)}
\* the payloads parsed; some are cut after 20 bytes
CommitPayloads ==
    LET whole == {Damaged(TreeLine(Digest(0, 15, 255)), damage, 0) \o parents
                      \o AuthorLine \o tail :
                    damage \in LineDamages, parents \in ParentBlocks, tail \in CommitTails}
    IN whole \cup {SubSeq(TreeLine(Digest(0, 15, 255)), 1, 20)}

InitCommit ==
    /\ raw \in CommitPayloads
    /\ build \in {"debug", "release"}
    /\ commitOp = "none"
    /\ commitRet = None
    /\ ppCall = NoCall
    /\ OidIdle
    /\ IdxIdle
    /\ DbIdle
    /\ DeltaIdle
    /\ ObjIdle
    /\ PackIdle
    /\ StIdle
    /\ HdrIdle
    /\ PathIdle
    /\ ParseIdle
    /\ TreeIdle
    /\ MapIdle
    /\ SpIdle

\* Variant::parse(raw)
Parse ==
    /\ commitOp = "none"
    /\ ppCall = NoCall
    /\ \E variant \in CommitVariants :
          /\ commitOp' = variant
          /\ commitRet' = ParseCommit(variant, raw, build)
    /\ UNCHANGED <<raw, ppCall, exceptCommit>>

\* parse_parent(raw, &mut curr), first with the index parse_tree returned,
\* then again as long as it finds a parent
ParseParent ==
    /\ commitOp = "none"
    /\ IF ppCall = NoCall THEN TRUE
       ELSE ppCall.ret.tag = "Ok" /\ ppCall.ret.val.tag = "Some"
    /\ LET curr == IF ppCall = NoCall THEN 46 ELSE ppCall.after
           Recorded(out) ==
               [op |-> "parse_parent", before |-> curr,
                ret |-> IF out.tag = "Ok" THEN Ok(out.val) ELSE out,
                after |-> IF out.tag = "Ok" THEN out.curr ELSE curr]
       IN ppCall' = Recorded(parse_parent(raw, curr))
    /\ UNCHANGED <<raw, commitOp, commitRet, exceptCommit>>

NextCommit == Parse \/ ParseParent
SpecCommit == InitCommit /\ [][NextCommit]_vars

---------------------------------------------------------------------------
(* Properties of the commit parsers                                        *)

IsHexByte(b) == b \in (48..57) \cup (97..102) \cup (65..70)
\* bytes i+1 .. i+Len(word) of data are word
WordAt(data, i, word) ==
    /\ i + Len(word) <= Len(data)
    /\ SubSeq(data, i + 1, i + Len(word)) = word
\* a line "<word><40 hex>\n" starts after the first i bytes of data
IdLineAt(data, i, word) ==
    /\ WordAt(data, i, word)
    /\ i + Len(word) + 41 <= Len(data)
    /\ \A k \in 1..40 : IsHexByte(data[i + Len(word) + k])
    /\ data[i + Len(word) + 41] = NEWLINE
\* the Oid a 40-hex id stands for: the first 16 of its 20 bytes
OidOfIdAt(data, i) ==
    [j \in 1..OID_BYTES |->
        16 * CharOfByte(data[i + 2 * j - 1]) + CharOfByte(data[i + 2 * j])]
\* the Oids of the consecutive "parent <40 hex>\n" lines that start after the
\* first i bytes
RECURSIVE ParentOidsFrom(_, _)
ParentOidsFrom(data, i) ==
    IF IdLineAt(data, i, PARENT_WORD)
    THEN <<OidOfIdAt(data, i + 7)>> \o ParentOidsFrom(data, i + 48)
    ELSE <<>>
\* a commit's head: a tree line, then parent lines, then the author line
WellFormedHead(data) ==
    /\ IdLineAt(data, 0, TREE_WORD)
    /\ WordAt(data, 46 + 48 * Len(ParentOidsFrom(data, 46)), AUTHOR_WORD)
NthOrZero(q, n) == IF n <= Len(q) THEN q[n] ELSE ZeroOid

\* C21: parsing a commit with n parent lines stores the first parent in
\* parent_one, the second in parent_two and parents 3..n in extra_parents in
\* input order (the variants that stop after the parents always succeed on
\* such a commit); parse_parent returns None and leaves the cursor unchanged
\* when the next line starts with "author ", and consumes exactly one
\* "parent <40-hex>" line with its newline when that is the next line.
C21_ParentsStoredInOrder ==
    /\ (commitOp # "none" /\ WellFormedHead(raw)) =>
          /\ commitOp \in {"CommitOnlyTreeAndParents", "CommitOnlyParents"}
                => commitRet.tag = "Ok"
          /\ commitRet.tag = "Ok" =>
                LET parents == ParentOidsFrom(raw, 46)
                IN /\ commitRet.val.parent_one = NthOrZero(parents, 1)
                   /\ commitRet.val.parent_two = NthOrZero(parents, 2)
                   /\ commitRet.val.extra_parents = SubSeq(parents, 3, Len(parents))
    /\ ppCall # NoCall =>
          /\ WordAt(raw, ppCall.before, AUTHOR_WORD)
                => ppCall.ret = Ok(None) /\ ppCall.after = ppCall.before
          /\ IdLineAt(raw, ppCall.before, PARENT_WORD)
                => /\ ppCall.ret = Ok(Some(OidOfIdAt(raw, ppCall.before + 7)))
                   /\ ppCall.after = ppCall.before + 48

\* a commit with four parents was parsed: two of them are in extra_parents
C21_FourParentsParsed ==
    /\ commitOp = "CommitOnlyTreeAndParents"
    /\ WellFormedHead(raw)
    /\ Len(ParentOidsFrom(raw, 46)) = 4
    /\ commitRet.tag = "Ok"
    /\ Len(commitRet.val.extra_parents) = 2

\* data is a well-formed commit whose message, after the blank line that
\* follows the committer line, is empty or only newlines
MessageOnlyNewlines(data) ==
    /\ WellFormedHead(data)
    /\ \E n \in 0..Len(data) :
          LET end == CommitterLine \o <<NEWLINE>> \o Rep(NEWLINE, n)
          IN /\ Len(end) + 46 + Len(AuthorLine) <= Len(data)
             /\ SubSeq(data, Len(data) - Len(end) + 1, Len(data)) = end

\* C29: parsing a full commit whose message is empty or consists only of
\* newline characters returns a commit or an error, never a panic.
C29_EmptyMessageNeverPanics ==
    (commitOp \in {"CommitFull", "CommitFullMessageAndDescription"}
        /\ MessageOnlyNewlines(raw))
       => commitRet.tag # "Panic"

\* C30: every commit parser variant returns an error when the payload does
\* not begin with "tree ", 40 hexadecimal characters and a newline.
C30_NoTreeLineIsAnError ==
    (commitOp # "none" /\ ~IdLineAt(raw, 0, TREE_WORD)) => commitRet.tag = "Err"

---------------------------------------------------------------------------
(* Tree parser: loose/parsed/tree_object_parsing.rs                        *)

\* TreeMode::try_from: b"40000", b"100644", b"100664", b"100640", b"100755",
\* b"120000", b"160000"
TreeMode_try_from(value) ==
    IF value = <<52, 48, 48, 48, 48>> THEN Ok("Directory")
    ELSE IF value = <<49, 48, 48, 54, 52, 52>> THEN Ok("RegularNonEx")
    ELSE IF value = <<49, 48, 48, 54, 54, 52>> THEN Ok("RegularNonExGroupWrite")
    ELSE IF value = <<49, 48, 48, 54, 52, 48>> THEN Ok("RegularNonEx")
    ELSE IF value = <<49, 48, 48, 55, 53, 53>> THEN Ok("RegularEx")
    ELSE IF value = <<49, 50, 48, 48, 48, 48>> THEN Ok("SymLink")
    ELSE IF value = <<49, 54, 48, 48, 48, 48>> THEN Ok("GitLink")
    ELSE Err

\* this_entry_len, one byte short
EntryLenShort(null_byte_index) == null_byte_index + 20
\* this_entry_len
EntryLen(null_byte_index) == null_byte_index + 1 + 20

\* get_tree_entry: Ok with the entry and the cursor after it, or Err
get_tree_entry(data, curr) ==
    LET rest == SubSeq(data, curr + 1, Len(data))
        Found(null_byte_index) ==
            IF null_byte_index.tag = "None" THEN Err
            ELSE LET string_part == SubSeq(rest, 1, null_byte_index.val)
                     Split(space_index) ==
                         IF space_index.tag = "None" THEN Err
                         ELSE LET Entry(tree_mode, path_component, last_segment) ==
                                      IF tree_mode.tag = "Err" THEN Err
                                      ELSE IF \E k \in 1..Len(path_component) :
                                                 path_component[k] = 255
                                      THEN Err
                                      ELSE IF last_segment.tag = "None" THEN Err
                                      ELSE [tag |-> "Ok",
                                            val |-> [id |-> SubSeq(last_segment.val, 1, OID_BYTES),
                                                     entry_mode |-> tree_mode.val,
                                                     path_component |-> path_component],
                                            curr |-> curr + EntryLen(null_byte_index.val)]
                              IN Entry(TreeMode_try_from(SubSeq(string_part, 1, space_index.val)),
                                       SubSeq(string_part, space_index.val + 2, Len(string_part)),
                                       SliceGet(rest, null_byte_index.val + 1,
                                                null_byte_index.val + 1 + 20))
                 IN Split(Position(string_part, SPACE))
    IN Found(Position(rest, 0))

\* the loop of TreeObject::parse from index on
RECURSIVE TreeEntriesFrom(_, _, _)
TreeEntriesFrom(data, index, entries) ==
    IF index >= Len(data) THEN [tag |-> "Ok", val |-> entries, index |-> index]
    ELSE LET Pushed(entry) ==
                 IF entry.tag = "Err" THEN Err
                 ELSE TreeEntriesFrom(data, entry.curr, Append(entries, entry.val))
         IN Pushed(get_tree_entry(data, index))

TreeObject_parse(data) == TreeEntriesFrom(data, 0, <<>>)

\* most entries of a tree of the model
MaxEntries == 2
\* the modes git writes, one it never writes, and one with a leading zero
EntryModes ==
    {<<52, 48, 48, 48, 48>>, <<49, 48, 48, 54, 52, 52>>, <<49, 48, 48, 54, 54, 52>>, <<49, 48, 48, 54, 52, 48>>, <<49, 48, 48, 55, 53, 53>>, <<49, 50, 48, 48, 48, 48>>, <<49, 54, 48, 48, 48, 48>>, <<49, 48, 48, 54, 48, 48>>, <<48, 52, 48, 48, 48, 48>>}
\* a name with a space in it, and one that is not UTF-8
EntryPaths == {<<97, 32, 98>>, <<97, 255>>}
\* ids that hold the bytes 0 and ' '
EntryIds == {Digest(0, 32, 7), Digest(32, 0, 9)}
TreeRecord(mode, name, id) == mode \o <<SPACE>> \o name \o <<0>> \o id
TreeRecords == {TreeRecord(mode, name, id) :
                   mode \in EntryModes, name \in EntryPaths, id \in EntryIds}
\* how many bytes the payload lost at its end
TreeCuts == {0, 1, 20, 22}
TreePayloads ==
    {SubSeq(Concat(records), 1, Len(Concat(records)) - cut) :
        records \in UNION {[1..n -> TreeRecords] : n \in 0..MaxEntries},
        cut \in TreeCuts}

InitTree ==
    /\ treeRaw \in TreePayloads
    /\ build \in {"debug", "release"}
    /\ treeRet = None
    /\ OidIdle
    /\ IdxIdle
    /\ DbIdle
    /\ DeltaIdle
    /\ ObjIdle
    /\ PackIdle
    /\ StIdle
    /\ HdrIdle
    /\ PathIdle
    /\ ParseIdle
    /\ CommitIdle
    /\ MapIdle
    /\ SpIdle

\* TreeObject::parse(raw)
TreeParse ==
    /\ treeRet = None
    /\ treeRet' = TreeObject_parse(treeRaw)
    /\ UNCHANGED <<treeRaw, exceptTree>>

NextTree == TreeParse
SpecTree == InitTree /\ [][NextTree]_vars

---------------------------------------------------------------------------
(* Properties of the tree parser                                           *)

\* the modes of the tree grammar and the variant each stands for
ModeTable ==
    {<<<<52, 48, 48, 48, 48>>, "Directory">>,
     <<<<49, 48, 48, 54, 52, 52>>, "RegularNonEx">>,
     <<<<49, 48, 48, 54, 54, 52>>, "RegularNonExGroupWrite">>,
     <<<<49, 48, 48, 54, 52, 48>>, "RegularNonEx">>,
     <<<<49, 48, 48, 55, 53, 53>>, "RegularEx">>,
     <<<<49, 50, 48, 48, 48, 48>>, "SymLink">>,
     <<<<49, 54, 48, 48, 48, 48>>, "GitLink">>}
\* the entries the grammar "<mode> SP <path> NUL <20 raw bytes>" reads in
\* data after its first i bytes, or ok = FALSE when what is left is not a
\* sequence of such records
RECURSIVE GrammarEntries(_, _)
GrammarEntries(data, i) ==
    IF i = Len(data) THEN [ok |-> TRUE, entries |-> <<>>]
    ELSE LET modes == {m \in ModeTable : WordAt(data, i, m[1] \o <<SPACE>>)}
             nuls == {k \in (i + 1)..Len(data) : data[k] = 0}
         IN IF modes = {} \/ nuls = {} THEN [ok |-> FALSE]
            ELSE LET m == CHOOSE x \in modes : TRUE
                     nul == CHOOSE k \in nuls : \A j \in nuls : k <= j
                     name == SubSeq(data, i + Len(m[1]) + 2, nul - 1)
                 IN IF nul + 20 > Len(data) \/ \E k \in 1..Len(name) : name[k] >= 128
                    THEN [ok |-> FALSE]
                    ELSE LET rest == GrammarEntries(data, nul + 20)
                         IN IF ~rest.ok THEN rest
                            ELSE [ok |-> TRUE,
                                  entries |->
                                    <<[id |-> SubSeq(data, nul + 1, nul + OID_BYTES),
                                       entry_mode |-> m[2],
                                       path_component |-> name]>> \o rest.entries]

\* C22: TreeObject::parse returns one entry per record
\* "<mode> SP <path> NUL <20 raw bytes>", in input order, and consumes the
\* whole buffer; each mode maps to its variant, 100640 to RegularNonEx; any
\* other mode or a truncated record makes the whole parse fail.
C22_OneEntryPerRecord ==
    treeRet # None =>
        LET expected == GrammarEntries(treeRaw, 0)
        IN IF expected.ok
           THEN /\ treeRet.tag = "Ok"
                /\ treeRet.val = expected.entries
                /\ treeRet.index = Len(treeRaw)
           ELSE treeRet = Err

\* a tree of two records was parsed, the second with the mode 100640
C22_TwoRecordsParsed ==
    /\ treeRet # None
    /\ treeRet.tag = "Ok"
    /\ Len(treeRet.val) = 2
    /\ treeRet.val[1].entry_mode = "GitLink"
    /\ treeRet.val[2].entry_mode = "RegularNonEx"
    /\ WordAt(treeRaw, 31, <<49, 48, 48, 54, 52, 48, 32>>)

---------------------------------------------------------------------------
(* OidMap: oidmap_u128/mod.rs, with N = B8 tables                          *)

\* B8: the number of tables
B8 == 256
\* shiftedkey!(key) for N = B8: the top 8 bits of the key
shiftedkey(key) == key[1]

\* the outcomes binary_search_by(|(k, _)| k.cmp(key)) can have: Ok(i) for
\* any i that holds the key, else Err(i) with i the place that keeps the
\* table sorted (positions counted from 0)
binary_search_table_for_key(table, key) ==
    LET matches == {i \in 0..(Len(table) - 1) : table[i + 1][1] = key}
    IN IF matches # {} THEN {[tag |-> "Ok", val |-> i] : i \in matches}
       ELSE {[tag |-> "Err",
              val |-> Cardinality({i \in 1..Len(table) : OidLess(table[i][1], key)})]}

\* table.push(entry) and the swaps down to insert_at, or, for a table of 100
\* entries or more, table.insert(insert_at, entry): the same table either way
InsertedAt(table, insert_at, entry) ==
    SubSeq(table, 1, insert_at) \o <<entry>> \o SubSeq(table, insert_at + 1, Len(table))

\* OidMap::insert: the tables it can leave
OidMap_insert(tables, key, t) ==
    {[tables EXCEPT ![shiftedkey(key)] = InsertedAt(@, found.val, <<key, t>>)] :
        found \in binary_search_table_for_key(tables[shiftedkey(key)], key)}

\* OidMap::get: the values it can return
OidMap_get(tables, key) ==
    LET table == tables[shiftedkey(key)]
    IN {IF found.tag = "Ok" THEN Some(table[found.val + 1][2]) ELSE None :
           found \in binary_search_table_for_key(table, key)}

\* the sum of the lengths of the tables at the indexes S
RECURSIVE SumLens(_, _)
SumLens(tables, S) ==
    IF S = {} THEN 0
    ELSE LET i == CHOOSE x \in S : TRUE
         IN Len(tables[i]) + SumLens(tables, S \ {i})
\* OidMap::len: the empty tables add nothing to the sum
OidMap_len(tables) == SumLens(tables, {i \in 0..(B8 - 1) : tables[i] # <<>>})

\* most insert calls of a run
MaxInserts == 3
MapKeys == {key \in OidUniverse : key[1] \in {0, 255}}
MapValues == {1, 2}

\* OidMap::default()
InitMap ==
    /\ tables_root = [i \in 0..(B8 - 1) |-> <<>>]
    /\ build \in {"debug", "release"}
    /\ inserts = <<>>
    /\ mapRet = NoCall
    /\ OidIdle
    /\ IdxIdle
    /\ DbIdle
    /\ DeltaIdle
    /\ ObjIdle
    /\ PackIdle
    /\ StIdle
    /\ HdrIdle
    /\ PathIdle
    /\ ParseIdle
    /\ CommitIdle
    /\ TreeIdle
    /\ SpIdle

\* map.insert(key, t)
MapInsert ==
    /\ Len(inserts) < MaxInserts
    /\ \E key \in MapKeys, t \in MapValues :
          /\ tables_root' \in OidMap_insert(tables_root, key, t)
          /\ inserts' = Append(inserts, <<key, t>>)
    /\ mapRet' = NoCall
    /\ UNCHANGED <<exceptMap>>

\* map.get(&key)
MapGet ==
    /\ \E key \in MapKeys :
          \E ret \in OidMap_get(tables_root, key) :
             mapRet' = [op |-> "get", key |-> key, ret |-> ret]
    /\ UNCHANGED <<tables_root, inserts, exceptMap>>

\* map.len()
MapLen ==
    /\ mapRet' = [op |-> "len", ret |-> OidMap_len(tables_root)]
    /\ UNCHANGED <<tables_root, inserts, exceptMap>>

NextMap == MapInsert \/ MapGet \/ MapLen
SpecMap == InitMap /\ [][NextMap]_vars

\* which of the inserts were made under key
InsertedUnder(key) == {k \in 1..Len(inserts) : inserts[k][1] = key}
\* the value of the last of them
LastUnder(key) ==
    inserts[CHOOSE k \in InsertedUnder(key) : \A j \in InsertedUnder(key) : j <= k][2]

\* C23: after any sequence of insert calls, get(k) returns the value most
\* recently inserted under k, get of a key never inserted returns None, and
\* len() is the number of distinct keys inserted.
C23_MapHoldsLastInsert ==
    /\ mapRet.op = "get" =>
          mapRet.ret = IF InsertedUnder(mapRet.key) = {} THEN None
                       ELSE Some(LastUnder(mapRet.key))
    /\ mapRet.op = "len" =>
          mapRet.ret = Cardinality({inserts[k][1] : k \in 1..Len(inserts)})

---------------------------------------------------------------------------
(* SearchedPack: examples/log-oneline.rs                                   *)

(* SearchedPack::find_oid_location(oid) on the fields of idx_file: the      *)
(* outcomes of the call, each with the fields it leaves. known_oids is the  *)
(* set of pairs inserted into the OidMap: insert keeps every pair and get   *)
(* answers with a pair of the key (OidMap_insert, OidMap_get).              *)
find_oid_location(file, from, searched, known, oid) ==
    LET Left(ret, new_from, new_searched, new_known) ==
            [ret |-> ret, continue_from |-> new_from, fully_searched |-> new_searched,
             known_oids |-> new_known]
        in_map == {q[2] : q \in {r \in known : r[1] = oid}}
        FromMap(packfile_offset) ==
            IF packfile_offset.tag = "None" THEN Left(Err, from, searched, known)
            ELSE Left(Ok(packfile_offset), from, searched, known)
        Inserted(walk) == known \cup {<<walk.hits[k], walk.visited[k]>> : k \in 1..Len(walk.visited)}
        Found(walk, packfile_offset) ==
            IF packfile_offset.tag = "None" THEN Left(Err, from, searched, Inserted(walk))
            ELSE Left(Ok(packfile_offset), Some(get_first_byte_of_oid(oid)), searched, Inserted(walk))
        Walked(walk) ==
            IF walk.panicked THEN Left(Panic, from, searched, known)
            ELSE IF walk.stopped
            THEN Found(walk, find_packfile_index_from_fanout_index(file, walk.visited[Len(walk.visited)]))
            ELSE Left(Ok(None), from, TRUE, Inserted(walk))
        \* the call at which the closure answers true: the first one that
        \* is handed oid, 0 when none is
        StopsAt(hits) ==
            IF \E k \in 1..Len(hits) : hits[k] = oid
            THEN CHOOSE k \in 1..Len(hits) : hits[k] = oid /\ \A j \in 1..(k - 1) : hits[j] # oid
            ELSE 0
        Search(unstopped) ==
            Walked(walk_all_oids_with_index_and_from(file, from, StopsAt(unstopped.hits)))
    IN IF in_map # {}
       THEN {FromMap(find_packfile_index_from_fanout_index(file, fanout_index)) : fanout_index \in in_map}
       ELSE IF searched THEN {Left(Ok(None), from, searched, known)}
       ELSE {Search(walk_all_oids_with_index_and_from(file, from, 0))}

---------------------------------------------------------------------------
(* Specification of the lookups on one SearchedPack                        *)

\* most lookups made on one SearchedPack
MaxLookups == 3

\* a SearchedPack as log-oneline creates it on a pack and its index
InitSp ==
    /\ \E S \in ObjectSets, version \in {"V1", "V2"}, fill \in FillBytes :
          spFile = IndexOf(S, version, fill)
    /\ continue_from = None
    /\ fully_searched = FALSE
    /\ known_oids = {}
    /\ spCall = NoCall
    /\ lookups = 0
    /\ build = "release"
    /\ OidIdle
    /\ IdxIdle
    /\ DbIdle
    /\ DeltaIdle
    /\ ObjIdle
    /\ PackIdle
    /\ StIdle
    /\ HdrIdle
    /\ PathIdle
    /\ ParseIdle
    /\ CommitIdle
    /\ TreeIdle
    /\ MapIdle

\* pack.find_oid_location(oid); after a panic no call follows
FindOidLocation ==
    /\ lookups < MaxLookups
    /\ IF spCall = NoCall THEN TRUE ELSE spCall.ret.tag # "Panic"
    /\ \E oid \in OidUniverse :
       \E left \in find_oid_location(spFile, continue_from, fully_searched, known_oids, oid) :
          /\ spCall' = [op |-> "find_oid_location", arg |-> oid, ret |-> left.ret]
          /\ continue_from' = left.continue_from
          /\ fully_searched' = left.fully_searched
          /\ known_oids' = left.known_oids
    /\ lookups' = lookups + 1
    /\ UNCHANGED <<spFile, exceptSp>>

NextSp == FindOidLocation
SpecSearchedPack == InitSp /\ [][NextSp]_vars

\* ---- C27: lookups on a SearchedPack

(* C27: whatever lookups came before, find_oid_location(oid) returns       *)
(* Some(pack offset of oid) when the pack's index stores oid and None when *)
(* it does not; it returns no error and does not panic.                    *)
C27_LookupFindsExactlyTheStored ==
    spCall.op = "find_oid_location" =>
        LET at == {j \in 1..NumDigests(spFile) : full_oid_to_u128_oid(spFile.digests[j]) = spCall.arg}
        IN IF at = {} THEN spCall.ret = Ok(None)
           ELSE \E j \in at : spCall.ret = Ok(Some(U64Of(spFile.offsets[j].at)))

---------------------------------------------------------------------------
(* Specification of the enumeration of one loose folder                    *)

\* entries of a loose folder that are not object files: a short name, a
\* name of 40 hex characters, and names of 38 characters with a character
\* that is no hex digit at the start or the end, or with a leading '+'
StrayNames ==
    {Rep(7, 5), Rep(7, 2 * SHA1_SIZE),
     <<NonHexChar>> \o Rep(7, 2 * SHA1_SIZE - 3), Rep(7, 2 * SHA1_SIZE - 3) \o <<NonHexChar>>,
     <<PlusChar>> \o Rep(7, 2 * SHA1_SIZE - 3)}

\* an objects directory with one loose folder: object files git wrote,
\* and any stray entries
InitFolder ==
    /\ build \in {"debug", "release"}
    /\ \E folder \in FirstBytes, stray \in SUBSET StrayNames :
       \E S \in SUBSET {d \in DigestUniverse : d[1] = folder} :
          fs = [loose |-> [b \in {folder} |-> {LooseFileName(d) : d \in S} \cup stray],
                packDir |-> FALSE,
                idx |-> <<>>]
    /\ dbOp = "none"
    /\ dbArg = None
    /\ dbRet = None
    /\ dbHits = {}
    /\ OidIdle
    /\ IdxIdle
    /\ DeltaIdle
    /\ ObjIdle
    /\ PackIdle
    /\ StIdle
    /\ HdrIdle
    /\ PathIdle
    /\ ParseIdle
    /\ CommitIdle
    /\ TreeIdle
    /\ MapIdle
    /\ SpIdle

\* odb.get_all_loose_oids_at_folder(folder, cb)
GetAllLooseOidsAtFolder ==
    /\ dbOp = "none"
    /\ \E folder \in FirstBytes :
          /\ dbArg' = folder
          /\ Returns(get_all_loose_oids_at_folder(fs, folder))
    /\ dbOp' = "get_all_loose_oids_at_folder"
    /\ UNCHANGED <<fs, exceptDb>>

NextFolder == IterLooseFolder \/ GetAllLooseOidsAtFolder
SpecFolder == InitFolder /\ [][NextFolder]_vars

\* ---- C28: stray entries of a loose folder

\* the object files of folder b: the names of exactly 38 hex digits, and
\* the 20 bytes folder and name spell
ObjectFiles(b) ==
    {n \in EntriesOf(LooseFolder(fs, b)) :
        Len(n) = 2 * SHA1_SIZE - 2 /\ \A k \in 1..Len(n) : n[k] \in 0..15}
BytesOfName(b, n) == <<b>> \o [i \in 1..(SHA1_SIZE - 1) |-> 16 * n[2 * i - 1] + n[2 * i]]

(* C28: enumerating a loose folder (State::iter_loose_folder and           *)
(* get_all_loose_oids_at_folder) skips every entry whose name is not       *)
(* exactly 38 hexadecimal characters, without an error or a panic, and     *)
(* reports every object file of the folder: the call returns Ok and its    *)
(* callback has received exactly the object files.                         *)
C28_StrayEntriesAreSkipped ==
    /\ (dbOp = "iter_loose_folder" /\ LooseFolder(fs, dbArg).tag = "Dir") =>
          /\ dbRet = Ok(<<>>)
          /\ dbHits = {SubSeq(BytesOfName(dbArg, n), 1, OID_BYTES) : n \in ObjectFiles(dbArg)}
    /\ (dbOp = "get_all_loose_oids_at_folder" /\ LooseFolder(fs, dbArg).tag = "Dir") =>
          /\ dbRet = Ok(<<>>)
          /\ dbHits = {[kind |-> "Loose",
                        oid |-> SubSeq(BytesOfName(dbArg, n), 1, OID_BYTES),
                        rest |-> SubSeq(BytesOfName(dbArg, n), OID_BYTES + 1, SHA1_SIZE)] :
                          n \in ObjectFiles(dbArg)}

\* ---- C24: resolving a pack entry terminates

\* C24: resolving any pack entry terminates: get_packed_object returns
\* (an object or an error) without the resolvers calling themselves until
\* the stack is exhausted, because an offset delta's base lies before the
\* entry and a chain of reference deltas never comes back to an entry.
C24_ResolutionTerminates ==
    packRet # None => packRet.tag \in {"Ok", "Err"}

\* ---- C25: what the walker hands to its callback

(* C25: for every start_byte and every callback, one that never returns    *)
(* true included, walk_all_oids_with_index_and_from passes the callback    *)
(* only fanout indexes i with fanout[start_byte-1] <= i < num_objects      *)
(* (from 0 when start_byte is 0 or absent), each at most once and in       *)
(* ascending order, and reads only bytes of the digest table: it reads no  *)
(* entry at or past num_objects and does not panic.                        *)
C25_WalkPassesOnlyStoredIndexes ==
    idxOp = "walk_all_oids_with_index_and_from" =>
        LET lo == IF idxArg.start_byte.tag = "Some" THEN BucketLo(idxArg.start_byte.val) ELSE 0
            v == idxWalk.visited
        IN /\ ~idxWalk.panicked
           /\ \A k \in 1..Len(v) : lo <= v[k] /\ v[k] < NumDigests(idx)
           /\ \A k \in 1..(Len(v) - 1) : v[k] < v[k + 1]

\* ---- C26: a SlightlyBetterState against a fresh MinState

\* what a fresh MinState gives find_first_matching_oid_with_location(p):
\* found or not, over the orders in which the directories can be read
FreshFirstOutcomes(p) ==
    {find_first_matching_oid_with_location(disk, p, build, loose_order, pack_order).ret.tag :
        loose_order \in Orders(EntriesOf(LooseFolder(disk, get_first_byte_of_oid(p.oid)))),
        pack_order \in Orders(DOMAIN disk.idx)}

(* C26: whatever searches came before on the same SlightlyBetterState and  *)
(* unchanged directory, find_matching_oids hands its callback the same set *)
(* of Oids, and find_first_matching_oid_with_location finds or fails to     *)
(* find, as the same call on a fresh MinState does.                        *)
C26_CachedSearchAgreesWithFresh ==
    /\ stCall.op = "find_matching_oids" =>
          LET Same(fresh) == /\ stCall.ret.tag = fresh.ret.tag
                             /\ fresh.ret.tag = "Ok" => stCall.hits = fresh.hits
          IN Same(find_matching_oids(disk, stCall.arg, build))
    /\ stCall.op = "find_first_matching_oid_with_location" =>
          stCall.ret.tag \in FreshFirstOutcomes(stCall.arg)
====
